---- MODULE Spec2Model ----
(***************************************************************************)
(* Model of the AMD AI service (apps/ai-service): the sliding-window rate  *)
(* limiter (app/security.py), the one-shot request handlers and the        *)
(* streaming session (app/routes/huggingface_amd.py, gemini_amd.py), the   *)
(* audio buffer (app/utils/audio_processing.py) and the lazy model load.   *)
(*                                                                         *)
(* Each subsystem has its own specification over the shared variables:     *)
(*   SpecRL      threads calling check_rate_limit / RateLimiter.is_allowed *)
(*   SpecLoad    threads calling _ensure_model_loaded                      *)
(*   SpecStream  one streaming session (stream_amd)                        *)
(*   SpecOneShot one-shot requests (predict_amd, detect_amd_gemini)        *)
(***************************************************************************)
EXTENDS Integers, Sequences, FiniteSets, TLC

VARIABLES
    \* ---- RateLimiter (security.py:16-43) and its callers
    requests,   \* RateLimiter.requests: identifier -> list of timestamps
    lock,       \* RateLimiter.lock: the thread holding it, or "none"
    clock,      \* time.time(), in whole seconds
    rl_pc,      \* per thread: position inside check_rate_limit / is_allowed
    rl_id,      \* per thread: the identifier argument
    rl_now,     \* per thread: the local `now`
    rl_ret,     \* per thread: the value is_allowed returned
    rl_idx,     \* per thread: index in rl_log of the check in flight
    rl_log,     \* history: one record per decided check, in decision order
    \* ---- lazy model load (huggingface_amd.py:32-35, 63-74)
    handle,     \* model_loader's handle: "unloaded", "loading" or "loaded"
    load_lock,  \* _model_load_lock: the thread holding it, or "none"
    ld_pc,      \* per caller: position inside _ensure_model_loaded
    ld_seen,    \* per caller: the handle as the caller saw it on return
    ld_calls,   \* history: calls of _ensure_model_loaded started
    ld_loads,   \* history: executions of load_model started
    ld_fails,   \* history: executions of load_model that raised
    \* ---- streaming session, stream_amd (huggingface_amd.py:250-346)
    st_pc,      \* "receive": waiting in receive_bytes; "done": handler ended
    buffer,     \* AudioBuffer.buffer: the chunks, each [id, len (bytes)]
    total_samples, \* AudioBuffer._total_samples
    st_close,   \* the code passed to websocket.close, 0 while not called
    st_chunks,  \* history: number of binary messages received
    st_log,     \* history: one record per loop iteration (event, predict
                \* call, message sent)
    st_rate_checked, \* history: check_rate_limit was called for the session
    \* ---- one-shot requests: predict_amd (huggingface_amd.py:189-247) and
    \* detect_amd_gemini (gemini_amd.py:125-180)
    os_pc,      \* position of the handler the event loop is running
    os_req,     \* the request: route, client ip, X-Call-SID, the upload
    os_events,  \* history: what the handler did for the request, in order
    os_resp,    \* the response: status code, headers, verdict
    os_array,   \* predict_amd: audio_array
    os_file,    \* detect_amd_gemini: state of the uploaded file
    os_polls,   \* detect_amd_gemini: get_file calls of the request
    os_served,  \* history: number of requests started
    gemini_key, \* GEMINI_API_KEY is set
    os_suspended, \* handlers waiting at await audio.read() for the read of
                \* an upload that was rolled to disk, with their requests
    \* ---- health interface (health.py:9-28)
    health_seen, \* what the last /health query reported about the model
    \* ---- trim_silence (audio_processing.py:167-191)
    tr_pc,      \* "call" before the function has run, "done" after
    tr_input,   \* audio_array, the argument
    tr_result   \* the array returned

rl_vars == <<requests, lock, clock, rl_pc, rl_id, rl_now, rl_ret, rl_idx, rl_log>>

ld_vars == <<handle, load_lock, ld_pc, ld_seen, ld_calls, ld_loads, ld_fails>>

st_vars == <<st_pc, buffer, total_samples, st_close, st_chunks, st_log,
             st_rate_checked>>

os_vars == <<os_pc, os_req, os_events, os_resp, os_array, os_file, os_polls,
             os_served, gemini_key, os_suspended>>

hl_vars == <<health_seen>>

tr_vars == <<tr_pc, tr_input, tr_result>>

vars == <<rl_vars, ld_vars, st_vars, os_vars, hl_vars, tr_vars>>

\* what the actions of one subsystem leave alone
RLOthers == <<ld_vars, st_vars, os_vars, hl_vars, tr_vars>>
LDOthers == <<rl_vars, st_vars, os_vars, hl_vars, tr_vars>>
STOthers == <<rl_vars, ld_vars, os_vars, hl_vars, tr_vars>>

(***************************************************************************)
(* Bounds of the model                                                     *)
(***************************************************************************)
\* max_requests and window_seconds of the limiter instance under check
\* (predict_rate_limiter is RateLimiter(20, 60); the instance is scaled).
MaxRequests == 2
WindowSeconds == 2
\* the clock runs from 0 to MaxTime
MaxTime == 3
\* total number of rate-limit checks started
MaxChecks == 4

\* total number of _ensure_model_loaded calls started, and of failing loads
MaxEnsureCalls == 4
MaxLoadFails == 2

\* number of binary messages one streaming session receives
MaxChunks == 4

\* number of one-shot requests served, and of polls of one uploaded file
MaxServed == 3
\* most handlers suspended at their read at one time
MaxSuspended == 1
MaxPolls == 2

Threads == {"t1", "t2"}
Callers == {"c1", "c2", "c3"}
Identifiers == {"ip1", "ip2"}

(***************************************************************************)
(* Helpers                                                                 *)
(***************************************************************************)
RECURSIVE FilterSeq(_, _)
\* [x for x in s if x > lo]
FilterSeq(s, lo) ==
    IF s = <<>> THEN <<>>
    ELSE IF Head(s) > lo THEN <<Head(s)>> \o FilterSeq(Tail(s), lo)
         ELSE FilterSeq(Tail(s), lo)

Digits == <<"0", "1", "2", "3", "4", "5", "6", "7", "8", "9">>

RECURSIVE str(_)
\* Python str() of a non-negative int, as a sequence of characters
str(n) ==
    IF n < 10 THEN <<Digits[n + 1]>>
    ELSE str(n \div 10) \o <<Digits[(n % 10) + 1]>>

DigitValue(c) == CHOOSE d \in 0..9 : Digits[d + 1] = c

RECURSIVE ParseInt(_)
\* the number a sequence of decimal digits denotes (how a client reads Retry-After)
ParseInt(s) ==
    IF s = <<>> THEN 0
    ELSE ParseInt(SubSeq(s, 1, Len(s) - 1)) * 10 + DigitValue(s[Len(s)])

(***************************************************************************)
(* RateLimiter                                                             *)
(***************************************************************************)
max_requests == MaxRequests
window_seconds == WindowSeconds

\* `with self.lock`: a thread enters only while no thread holds the lock
LockAvailable_NoMutex(l) == TRUE
LockAvailable(l) == l = "none"

\* security.py:29-35: drop the timestamps that are not after window_start
CleanOld_Inclusive(times, now) == FilterSeq(times, now - window_seconds - 1)
CleanOld(times, now) == FilterSeq(times, now - window_seconds)

\* security.py:38-39: the list of a denied check when is_allowed returns
RecordedOnDeny_Appends(times, now) == Append(times, now)
RecordedOnDeny(times, now) == times

\* security.py:38
AtLimit_OffByOne(times) == Len(times) > max_requests
AtLimit(times) == Len(times) >= max_requests

\* security.py:66-70: the HTTPException of a denied check
NoResponse == [raised |-> "pending", status_code |-> 0, retry_after |-> <<>>]
RateLimitResponse(allowed) ==
    IF allowed
    THEN [raised |-> "none", status_code |-> 0, retry_after |-> <<>>]
    ELSE [raised |-> "HTTPException", status_code |-> 429,
          retry_after |-> str(window_seconds)]

\* the model handle before any load (spec 3, ModelHandle) and the free load lock
is_loaded(h) == h = "loaded"

LDInit ==
    /\ handle = "unloaded"
    /\ load_lock = "none"
    /\ ld_pc = [c \in Callers |-> "idle"]
    /\ ld_seen = [c \in Callers |-> "unloaded"]
    /\ ld_calls = 0
    /\ ld_loads = 0
    /\ ld_fails = 0

\* stream_amd after websocket.accept() (huggingface_amd.py:265-273)
STInit ==
    /\ st_pc = "receive"
    /\ buffer = <<>>
    /\ total_samples = 0
    /\ st_close = 0
    /\ st_chunks = 0
    /\ st_log = <<>>
    /\ st_rate_checked = FALSE

\* no one-shot request in progress; GEMINI_API_KEY read at import
\* (gemini_amd.py:24)
NoArray == [raised |-> FALSE, len |-> 0, chunks |-> {}, trimmed |-> FALSE,
            normalized |-> FALSE]
NoRequest == [route |-> "none", ip |-> "ip1",
              call_sid |-> [given |-> FALSE, chars |-> <<>>],
              content_type |-> "none", has_size |-> FALSE, length |-> 0,
              format |-> "pcm", preprocess |-> TRUE]
NoReply == [status_code |-> 0, retry_after |-> <<>>, label |-> "none",
            confidence |-> 0, detail |-> "none"]
OSInit ==
    /\ os_pc = "idle"
    /\ os_req = NoRequest
    /\ os_events = <<>>
    /\ os_resp = NoReply
    /\ os_array = NoArray
    /\ os_file = "none"
    /\ os_polls = 0
    /\ os_served = 0
    /\ gemini_key = TRUE
    /\ os_suspended = <<>>

\* no /health query yet
NoHealth == [asked |-> FALSE, reading |-> FALSE, model_loaded |-> FALSE,
             model_info |-> FALSE]
HLInit == health_seen = NoHealth

\* trim_silence has not been called
TRInit == tr_pc = "idle" /\ tr_input = <<>> /\ tr_result = <<>>

RLInFlight == Cardinality({t \in Threads : rl_pc[t] \notin {"idle", "ret"}})

RLInit ==
    /\ requests = [i \in Identifiers |-> <<>>]
    /\ lock = "none"
    /\ clock = 0
    /\ rl_pc = [t \in Threads |-> "idle"]
    /\ rl_id = [t \in Threads |-> "ip1"]
    /\ rl_now = [t \in Threads |-> 0]
    /\ rl_ret = [t \in Threads |-> FALSE]
    /\ rl_idx = [t \in Threads |-> 0]
    /\ rl_log = <<>>

\* check_rate_limit(identifier, limiter) is called and calls is_allowed
check_rate_limit_call(t, id) ==
    /\ rl_pc[t] = "idle"
    /\ Len(rl_log) + RLInFlight < MaxChecks
    /\ rl_pc' = [rl_pc EXCEPT ![t] = "acquire"]
    /\ rl_id' = [rl_id EXCEPT ![t] = id]
    /\ UNCHANGED <<requests, lock, clock, rl_now, rl_ret, rl_idx, rl_log>>
    /\ UNCHANGED RLOthers

\* security.py:27
is_allowed_acquire(t) ==
    /\ rl_pc[t] = "acquire"
    /\ LockAvailable(lock)
    /\ lock' = t
    /\ rl_pc' = [rl_pc EXCEPT ![t] = "now"]
    /\ UNCHANGED <<requests, clock, rl_id, rl_now, rl_ret, rl_idx, rl_log>>
    /\ UNCHANGED RLOthers

\* security.py:28
is_allowed_now(t) ==
    /\ rl_pc[t] = "now"
    /\ rl_now' = [rl_now EXCEPT ![t] = clock]
    /\ rl_pc' = [rl_pc EXCEPT ![t] = "clean"]
    /\ UNCHANGED <<requests, lock, clock, rl_id, rl_ret, rl_idx, rl_log>>
    /\ UNCHANGED RLOthers

\* security.py:32-35
is_allowed_clean(t) ==
    /\ rl_pc[t] = "clean"
    /\ requests' = [requests EXCEPT ![rl_id[t]] = CleanOld(@, rl_now[t])]
    /\ rl_pc' = [rl_pc EXCEPT ![t] = "limit"]
    /\ UNCHANGED <<lock, clock, rl_id, rl_now, rl_ret, rl_idx, rl_log>>
    /\ UNCHANGED RLOthers

\* security.py:38-39: over the limit, return False (leaving the with block)
is_allowed_deny(t) ==
    /\ rl_pc[t] = "limit"
    /\ AtLimit(requests[rl_id[t]])
    /\ rl_ret' = [rl_ret EXCEPT ![t] = FALSE]
    /\ rl_log' = Append(rl_log, [id |-> rl_id[t], t |-> rl_now[t],
                                 allowed |-> FALSE, resp |-> NoResponse])
    /\ rl_idx' = [rl_idx EXCEPT ![t] = Len(rl_log) + 1]
    /\ requests' = [requests EXCEPT ![rl_id[t]] = RecordedOnDeny(@, rl_now[t])]
    /\ lock' = "none"
    /\ rl_pc' = [rl_pc EXCEPT ![t] = "ret"]
    /\ UNCHANGED <<clock, rl_id, rl_now>>
    /\ UNCHANGED RLOthers

\* security.py:38: under the limit, go on to record the request
is_allowed_pass(t) ==
    /\ rl_pc[t] = "limit"
    /\ ~AtLimit(requests[rl_id[t]])
    /\ rl_pc' = [rl_pc EXCEPT ![t] = "append"]
    /\ UNCHANGED <<requests, lock, clock, rl_id, rl_now, rl_ret, rl_idx, rl_log>>
    /\ UNCHANGED RLOthers

\* security.py:42-43
is_allowed_append(t) ==
    /\ rl_pc[t] = "append"
    /\ requests' = [requests EXCEPT ![rl_id[t]] = Append(@, rl_now[t])]
    /\ rl_ret' = [rl_ret EXCEPT ![t] = TRUE]
    /\ rl_log' = Append(rl_log, [id |-> rl_id[t], t |-> rl_now[t],
                                 allowed |-> TRUE, resp |-> NoResponse])
    /\ rl_idx' = [rl_idx EXCEPT ![t] = Len(rl_log) + 1]
    /\ lock' = "none"
    /\ rl_pc' = [rl_pc EXCEPT ![t] = "ret"]
    /\ UNCHANGED <<clock, rl_id, rl_now>>
    /\ UNCHANGED RLOthers

\* security.py:65-70: check_rate_limit returns, or raises the 429
check_rate_limit_return(t) ==
    /\ rl_pc[t] = "ret"
    /\ rl_log' = [rl_log EXCEPT ![rl_idx[t]].resp = RateLimitResponse(rl_ret[t])]
    /\ rl_pc' = [rl_pc EXCEPT ![t] = "idle"]
    /\ UNCHANGED <<requests, lock, clock, rl_id, rl_now, rl_ret, rl_idx>>
    /\ UNCHANGED RLOthers

\* time passes
Tick ==
    /\ clock < MaxTime
    /\ clock' = clock + 1
    /\ UNCHANGED <<requests, lock, rl_pc, rl_id, rl_now, rl_ret, rl_idx, rl_log>>
    /\ UNCHANGED RLOthers

RLNext ==
    \/ \E t \in Threads, id \in Identifiers : check_rate_limit_call(t, id)
    \/ \E t \in Threads : is_allowed_acquire(t)
    \/ \E t \in Threads : is_allowed_now(t)
    \/ \E t \in Threads : is_allowed_clean(t)
    \/ \E t \in Threads : is_allowed_deny(t)
    \/ \E t \in Threads : is_allowed_pass(t)
    \/ \E t \in Threads : is_allowed_append(t)
    \/ \E t \in Threads : check_rate_limit_return(t)
    \/ Tick

InitRL == RLInit /\ LDInit /\ STInit /\ OSInit /\ HLInit /\ TRInit

SpecRL == InitRL /\ [][RLNext]_vars

\* ---- history views of rl_log
ChecksOf(id) == {i \in DOMAIN rl_log : rl_log[i].id = id}
FirstTime(id) == rl_log[CHOOSE i \in ChecksOf(id) : \A j \in ChecksOf(id) : i <= j].t
Rank(i) == Cardinality({j \in ChecksOf(rl_log[i].id) : j <= i})
InFirstWindow(i) == rl_log[i].t - FirstTime(rl_log[i].id) < window_seconds
AdmittedInWindowEndingAt(id, x) ==
    {j \in ChecksOf(id) : rl_log[j].allowed /\ rl_log[j].t > x - window_seconds
                          /\ rl_log[j].t <= x}

\* C1: of the checks made for one identifier inside the window that its first
\* check opens, the first max_requests are allowed and every further one is
\* denied; check_rate_limit raises nothing for an allowed check and raises a
\* 429 whose Retry-After reads as window_seconds for a denied one.
C1_FirstNAllowedThenDenied ==
    \A i \in DOMAIN rl_log :
        /\ InFirstWindow(i) => (rl_log[i].allowed <=> Rank(i) <= max_requests)
        /\ rl_log[i].resp.raised # "pending" =>
              IF rl_log[i].allowed
              THEN rl_log[i].resp.raised = "none"
              ELSE /\ rl_log[i].resp.raised = "HTTPException"
                   /\ rl_log[i].resp.status_code = 429
                   /\ rl_log[i].resp.retry_after # <<>>
                   /\ ParseInt(rl_log[i].resp.retry_after) = window_seconds

\* a check beyond the first max_requests of its window was denied with the 429
C1_Witness ==
    \E i \in DOMAIN rl_log :
        /\ InFirstWindow(i)
        /\ Rank(i) = max_requests + 1
        /\ ~rl_log[i].allowed
        /\ rl_log[i].resp.status_code = 429
        /\ \A j \in ChecksOf(rl_log[i].id) : j < i => rl_log[j].allowed

\* C2: in any interleaving of concurrent is_allowed calls, the checks admitted
\* for one identifier inside any one window never number more than
\* max_requests: with k slots left, at most k concurrent checks are admitted.
C2_AtMostKAdmitted ==
    \A i \in DOMAIN rl_log :
        rl_log[i].allowed =>
            Cardinality(AdmittedInWindowEndingAt(rl_log[i].id, rl_log[i].t))
                <= max_requests

\* two calls for the same identifier were in flight together at the same
\* instant with one slot left: one took the slot and the other was denied
C2_Witness ==
    \E t1, t2 \in Threads :
        /\ t1 # t2
        /\ rl_pc[t1] = "ret" /\ rl_pc[t2] = "ret"
        /\ rl_id[t1] = rl_id[t2] /\ rl_now[t1] = rl_now[t2]
        /\ rl_ret[t1] /\ ~rl_ret[t2]
        /\ rl_idx[t2] = rl_idx[t1] + 1
        /\ Len(requests[rl_id[t1]]) = max_requests

(***************************************************************************)
(* Lazy model load: HuggingFaceAMDDetector._ensure_model_loaded            *)
(* (huggingface_amd.py:63-74).  model_loader (app.models) is not part of   *)
(* the sources at hand: is_loaded and load_model follow the specification  *)
(* (sections 3 and 4.4): the handle is unloaded, loading or loaded, it     *)
(* never goes back, and a load that fails leaves it not loaded.            *)
(***************************************************************************)
\* `with _model_load_lock`
LoadLockAvailable(l) == l = "none"

\* huggingface_amd.py:65: the unsynchronised first check
FirstCheckMisses(h) == ~is_loaded(h)

\* huggingface_amd.py:68: the second check, inside the lock
SecondCheckMisses_NoRecheck(h) == TRUE
SecondCheckMisses(h) == ~is_loaded(h)

\* load_model has started / has completed / has raised
HandleOnLoadStart(h) == "loading"
HandleOnLoadDone(h) == "loaded"
HandleOnLoadError_Reset(h) == "unloaded"
HandleOnLoadError(h) == h

\* huggingface_amd.py:66: the with block releases the lock when load_model
\* raises inside it
LockOnLoadError_Held(c) == c
LockOnLoadError(c) == "none"

\* huggingface_amd.py:94: analyze_audio calls self._ensure_model_loaded()
ensure_call(c) ==
    /\ ld_pc[c] = "idle"
    /\ ld_calls < MaxEnsureCalls
    /\ ld_calls' = ld_calls + 1
    /\ ld_pc' = [ld_pc EXCEPT ![c] = "check1"]
    /\ UNCHANGED <<handle, load_lock, ld_seen, ld_loads, ld_fails>>
    /\ UNCHANGED LDOthers

\* huggingface_amd.py:65: not loaded, go for the lock
ensure_check1_miss(c) ==
    /\ ld_pc[c] = "check1"
    /\ FirstCheckMisses(handle)
    /\ ld_pc' = [ld_pc EXCEPT ![c] = "acquire"]
    /\ UNCHANGED <<handle, load_lock, ld_seen, ld_calls, ld_loads, ld_fails>>
    /\ UNCHANGED LDOthers

\* huggingface_amd.py:65: already loaded, return at once
ensure_check1_hit(c) ==
    /\ ld_pc[c] = "check1"
    /\ ~FirstCheckMisses(handle)
    /\ ld_pc' = [ld_pc EXCEPT ![c] = "returned"]
    /\ ld_seen' = [ld_seen EXCEPT ![c] = handle]
    /\ UNCHANGED <<handle, load_lock, ld_calls, ld_loads, ld_fails>>
    /\ UNCHANGED LDOthers

\* huggingface_amd.py:66: blocks until the lock is free
ensure_acquire(c) ==
    /\ ld_pc[c] = "acquire"
    /\ LoadLockAvailable(load_lock)
    /\ load_lock' = c
    /\ ld_pc' = [ld_pc EXCEPT ![c] = "check2"]
    /\ UNCHANGED <<handle, ld_seen, ld_calls, ld_loads, ld_fails>>
    /\ UNCHANGED LDOthers

\* huggingface_amd.py:68-70: still not loaded, load_model starts
ensure_check2_load(c) ==
    /\ ld_pc[c] = "check2"
    /\ SecondCheckMisses(handle)
    /\ handle' = HandleOnLoadStart(handle)
    /\ ld_loads' = ld_loads + 1
    /\ ld_pc' = [ld_pc EXCEPT ![c] = "loading"]
    /\ UNCHANGED <<load_lock, ld_seen, ld_calls, ld_fails>>
    /\ UNCHANGED LDOthers

\* huggingface_amd.py:68: loaded by another caller meanwhile, leave the lock
ensure_check2_skip(c) ==
    /\ ld_pc[c] = "check2"
    /\ ~SecondCheckMisses(handle)
    /\ load_lock' = "none"
    /\ ld_pc' = [ld_pc EXCEPT ![c] = "returned"]
    /\ ld_seen' = [ld_seen EXCEPT ![c] = handle]
    /\ UNCHANGED <<handle, ld_calls, ld_loads, ld_fails>>
    /\ UNCHANGED LDOthers

\* huggingface_amd.py:70-74: load_model returns, the with block ends
load_model_done(c) ==
    /\ ld_pc[c] = "loading"
    /\ handle' = HandleOnLoadDone(handle)
    /\ load_lock' = "none"
    /\ ld_pc' = [ld_pc EXCEPT ![c] = "returned"]
    /\ ld_seen' = [ld_seen EXCEPT ![c] = HandleOnLoadDone(handle)]
    /\ UNCHANGED <<ld_calls, ld_loads, ld_fails>>
    /\ UNCHANGED LDOthers

\* huggingface_amd.py:70-74: load_model raises, the with block releases the
\* lock and the exception leaves _ensure_model_loaded
load_model_error(c) ==
    /\ ld_pc[c] = "loading"
    /\ ld_fails < MaxLoadFails
    /\ ld_fails' = ld_fails + 1
    /\ handle' = HandleOnLoadError(handle)
    /\ load_lock' = LockOnLoadError(c)
    /\ ld_pc' = [ld_pc EXCEPT ![c] = "raised"]
    /\ UNCHANGED <<ld_seen, ld_calls, ld_loads>>
    /\ UNCHANGED LDOthers

\* the caller goes on (huggingface_amd.py:96) or its request fails; it may
\* come back with another request
ensure_leave(c) ==
    /\ ld_pc[c] \in {"returned", "raised"}
    /\ ld_pc' = [ld_pc EXCEPT ![c] = "idle"]
    /\ UNCHANGED <<handle, load_lock, ld_seen, ld_calls, ld_loads, ld_fails>>
    /\ UNCHANGED LDOthers

\* health.py:23: detailed_health reads model_loader.is_loaded() for
\* "model_loaded"; a load running in another thread may finish before the
\* next read
detailed_health_model_loaded ==
    /\ ~health_seen.reading
    /\ health_seen' = [asked |-> FALSE, reading |-> TRUE,
                       model_loaded |-> is_loaded(handle),
                       model_info |-> FALSE]
    /\ UNCHANGED <<rl_vars, ld_vars, st_vars, os_vars, tr_vars>>

\* health.py:24-28: it reads is_loaded() again for "model_info" (present
\* when loaded, None otherwise) and answers; it changes nothing
detailed_health_model_info ==
    /\ health_seen.reading
    /\ health_seen' = [health_seen EXCEPT !.asked = TRUE, !.reading = FALSE,
                                          !.model_info = is_loaded(handle)]
    /\ UNCHANGED <<rl_vars, ld_vars, st_vars, os_vars, tr_vars>>

LDNext ==
    \/ \E c \in Callers : ensure_call(c)
    \/ \E c \in Callers : ensure_check1_miss(c)
    \/ \E c \in Callers : ensure_check1_hit(c)
    \/ \E c \in Callers : ensure_acquire(c)
    \/ \E c \in Callers : ensure_check2_load(c)
    \/ \E c \in Callers : ensure_check2_skip(c)
    \/ \E c \in Callers : load_model_done(c)
    \/ \E c \in Callers : load_model_error(c)
    \/ \E c \in Callers : ensure_leave(c)
    \/ detailed_health_model_loaded
    \/ detailed_health_model_info

InitLoad == RLInit /\ LDInit /\ STInit /\ OSInit /\ HLInit /\ TRInit

SpecLoad == InitLoad /\ [][LDNext]_vars

LoadsInProgress == {c \in Callers : ld_pc[c] = "loading"}

\* C10 (as stated): with concurrent first callers, load_model executes
\* exactly once, so never more than once.
C10_LoadExecutesOnce == ld_loads <= 1

\* C10 (amended): no two loads run at the same time, a caller that finds a
\* load in progress waits for the lock, load_model is started once more than
\* it has failed at most (so exactly once when it does not fail, and never
\* again after it succeeded), and every caller for which
\* _ensure_model_loaded returns sees the model loaded.
C10_OneLoadAtATime ==
    /\ Cardinality(LoadsInProgress) <= 1
    /\ ld_loads <= ld_fails + 1
    /\ is_loaded(handle) => LoadsInProgress = {} /\ ld_loads = ld_fails + 1
    /\ \A c \in Callers :
          /\ ld_pc[c] = "loading" => load_lock = c
          /\ ld_pc[c] = "returned" => is_loaded(ld_seen[c]) /\ is_loaded(handle)
    /\ LoadsInProgress # {} =>
          \A c \in Callers : ld_pc[c] \notin {"check2", "returned"}

\* three callers raced for the first load: one loaded, the load ran once and
\* the two others, which had missed the first check, returned with the model
\* loaded without loading it again
C10_Witness ==
    /\ ld_loads = 1 /\ ld_fails = 0 /\ ld_calls = Cardinality(Callers)
    /\ \A c \in Callers : ld_pc[c] = "returned" /\ is_loaded(ld_seen[c])

(***************************************************************************)
(* AudioBuffer (audio_processing.py:11-50).  A chunk is kept as its        *)
(* position in the stream and its length in bytes; a decoded array as its  *)
(* length in samples, the chunks it was decoded from and the preprocessing *)
(* applied to it.                                                          *)
(***************************************************************************)
\* config.py: AudioConfig.SAMPLE_RATE, AudioConfig.BUFFER_SIZE_MS and
\* HuggingFaceConfig.CONFIDENCE_THRESHOLD (0.7, in thousandths)
SAMPLE_RATE == 16000
BUFFER_SIZE_MS == 3000
CONFIDENCE_THRESHOLD == 700

\* byte lengths of the binary messages a client sends: empty, odd, an even
\* chunk of about one second (32032 bytes = 16016 samples, a count whose
\* duration the float arithmetic rounds down), one sample short of the
\* threshold, the threshold itself (96000 bytes = 48000 samples = 3000 ms),
\* and one sample more than 10 s of audio (320002 bytes = 160001 samples)
ChunkLengths == {0, 1, 32032, 95998, 96000, 320002}

\* what model_loader.predict returns: confidences in thousandths, at the
\* threshold, just over it, well over it and out of range
Labels == {"human", "voicemail"}
Confidences == {700, 701, 950, 1200}

RECURSIVE TotalBytes(_)
\* len(b''.join(self.buffer))
TotalBytes(buf) == IF buf = <<>> THEN 0 ELSE Head(buf).len + TotalBytes(Tail(buf))

\* audio_processing.py:26
SamplesAfterAppend(total, len) == total + (len \div 2)

\* audio_processing.py:30: int((total / sample_rate) * 1000) in double
\* arithmetic.  For these sample counts (all those below 210000) the product
\* falls just short of the whole number of milliseconds and int() drops it.
FloatRoundsDown ==
    {16016, 16048, 16080, 16112, 16144, 16176, 16208, 16240, 16272,
     16304, 16336, 16368, 32032, 32096, 32160, 32224, 32288, 32352,
     32416, 32480, 32544, 32608, 32672, 32736, 64064, 64112, 64192,
     64240, 64320, 64368, 64448, 64496, 64576, 64624, 64704, 64752,
     64832, 64880, 64960, 65008, 65088, 65136, 65216, 65264, 65344,
     65392, 65472, 65520, 128016, 128128, 128176, 128224, 128272,
     128384, 128432, 128480, 128528, 128640, 128688, 128736, 128784,
     128896, 128944, 128992, 129040, 129152, 129200, 129248, 129296,
     129408, 129456, 129504, 129552, 129664, 129712, 129760, 129920,
     129968, 130016, 130128, 130176, 130224, 130272, 130384, 130432,
     130480, 130528, 130640, 130688, 130736, 130784, 130896, 130944,
     130992, 131040}

get_duration_ms(total) ==
    IF total \in FloatRoundsDown
    THEN ((total * 1000) \div SAMPLE_RATE) - 1
    ELSE (total * 1000) \div SAMPLE_RATE

\* audio_processing.py:32-41: np.frombuffer raises ValueError when the joined
\* bytes are not a whole number of int16 samples; b"".join raises on a chunk
\* that is None
get_audio_array(buf) ==
    IF buf = <<>> THEN NoArray
    ELSE IF \E i \in DOMAIN buf : buf[i].none
    THEN [NoArray EXCEPT !.raised = TRUE]
    ELSE IF TotalBytes(buf) % 2 # 0 THEN [NoArray EXCEPT !.raised = TRUE]
    ELSE [NoArray EXCEPT !.len = TotalBytes(buf) \div 2,
                         !.chunks = {buf[i].id : i \in DOMAIN buf}]

\* audio_processing.py:48-50
is_empty_Never(buf) == FALSE
is_empty(buf) == Len(buf) = 0

\* audio_processing.py:43-46
ClearedBuffer_KeepsChunks(buf) == buf
ClearedBuffer(buf) == <<>>

(***************************************************************************)
(* model_loader.predict (app.models, not part of the sources at hand):     *)
(* returns a label and a confidence, or raises; without a loaded model it  *)
(* has nothing to run and raises (specification 4.4, 7).                   *)
(***************************************************************************)
PredictRaises == [raised |-> TRUE, label |-> "none", confidence |-> 0]
PredictOutcomes(h) ==
    IF is_loaded(h)
    THEN {PredictRaises} \cup
         {[raised |-> FALSE, label |-> l, confidence |-> c] :
              l \in Labels, c \in Confidences}
    ELSE {PredictRaises}

(***************************************************************************)
(* stream_amd: one action per stretch of the handler between two awaits    *)
(***************************************************************************)
\* huggingface_amd.py:286
ThresholdReached(duration) == duration >= BUFFER_SIZE_MS

\* huggingface_amd.py:308
HighConfidence_Inverted(confidence) == confidence < CONFIDENCE_THRESHOLD
HighConfidence(confidence) == confidence > CONFIDENCE_THRESHOLD

NoMessage == [kind |-> "none", label |-> "none", confidence |-> 0,
              duration_ms |-> 0, reason |-> "none", error |-> "none"]
\* huggingface_amd.py:297-301
ChunkResponse(out, duration) ==
    [NoMessage EXCEPT !.kind = "verdict", !.label = out.label,
                      !.confidence = out.confidence, !.duration_ms = duration]
\* huggingface_amd.py:323-328
TimeoutResponse(out, duration) ==
    [NoMessage EXCEPT !.kind = "verdict", !.label = out.label,
                      !.confidence = out.confidence, !.duration_ms = duration,
                      !.reason = "timeout"]
\* huggingface_amd.py:339-343
ErrorResponse(e) ==
    [NoMessage EXCEPT !.kind = "error", !.label = "unknown", !.error = e]

\* the array handed to predict, as the call saw it
NoCall == [made |-> FALSE, array |-> NoArray, loaded |-> FALSE]
PredictCall(arr, h) == [made |-> TRUE, array |-> arr, loaded |-> is_loaded(h)]

\* one iteration of the loop: msg is the message that went out, tosend the
\* one handed to send_json; end is "pending" while the iteration awaits a
\* send or a close, "lost" when that send or close failed
LogEntry(ev, len, dur, had, call, out, msg, end) ==
    [event |-> ev, len |-> len, duration |-> dur, had_audio |-> had,
     call |-> call, out |-> out, msg |-> msg, tosend |-> msg, end |-> end,
     chunks_so_far |-> st_chunks + (IF ev = "chunk" THEN 1 ELSE 0)]
Pending(ev, len, dur, had, call, out, msg) ==
    [LogEntry(ev, len, dur, had, call, out, NoMessage, "pending")
        EXCEPT !.tosend = msg]

\* the iteration in progress goes on: its message is out, or it has ended
Delivered(log, end) ==
    [log EXCEPT ![Len(log)].msg = log[Len(log)].tosend, ![Len(log)].end = end]
Ended(log, end) == [log EXCEPT ![Len(log)].end = end]

\* huggingface_amd.py:336-338: the handler for any other exception builds the
\* error message and awaits its send
StreamFails(ev, len, dur, had, call, out, e) ==
    /\ st_log' = Append(st_log, Pending(ev, len, dur, had, call, out,
                                        ErrorResponse(e)))
    /\ st_pc' = "send_error"
    /\ UNCHANGED st_close

\* a send_json or close that raises (the client is gone) ends the handler:
\* as WebSocketDisconnect at huggingface_amd.py:334-335, or as another
\* exception whose error message cannot be sent either (lines 336-346, with
\* the bare except); nothing goes out and close is not called again
OutputFails ==
    /\ st_log' = Ended(st_log, "lost")
    /\ st_pc' = "done"
    /\ UNCHANGED <<buffer, total_samples, st_close>>

\* huggingface_amd.py:278-301: a binary message arrives within the timeout;
\* the iteration runs up to the await of send_json
stream_receive_chunk(len, out) ==
    /\ st_pc = "receive"
    /\ st_chunks < MaxChunks
    /\ st_chunks' = st_chunks + 1
    /\ LET buf1 == Append(buffer, [id |-> st_chunks + 1, len |-> len,
                                   none |-> FALSE])
           tot1 == SamplesAfterAppend(total_samples, len)
           current_duration == get_duration_ms(tot1)
           audio_array == get_audio_array(buf1)
           call == PredictCall(audio_array, handle)
       IN  /\ buffer' = buf1 /\ total_samples' = tot1
           /\ IF ~ThresholdReached(current_duration)
              THEN /\ st_log' = Append(st_log,
                         LogEntry("chunk", len, current_duration, TRUE, NoCall,
                                  PredictRaises, NoMessage, "none"))
                   /\ UNCHANGED <<st_pc, st_close>>
              ELSE IF audio_array.raised
              THEN StreamFails("chunk", len, current_duration, TRUE, NoCall,
                               PredictRaises, "ValueError")
              ELSE IF ~(audio_array.len > 0)
              THEN /\ st_log' = Append(st_log,
                         LogEntry("chunk", len, current_duration, TRUE, NoCall,
                                  PredictRaises, NoMessage, "none"))
                   /\ UNCHANGED <<st_pc, st_close>>
              ELSE IF out.raised
              THEN StreamFails("chunk", len, current_duration, TRUE, call, out,
                               "predict")
              ELSE /\ st_log' = Append(st_log,
                         Pending("chunk", len, current_duration, TRUE, call,
                                 out, ChunkResponse(out, current_duration)))
                   /\ st_pc' = "send_verdict"
                   /\ UNCHANGED st_close
    /\ UNCHANGED st_rate_checked
    /\ UNCHANGED STOthers

\* huggingface_amd.py:303-311: send_json returns; the buffer is cleared and
\* the handler awaits close or goes back to receive_bytes
stream_send_verdict(ok) ==
    /\ st_pc = "send_verdict"
    /\ IF ~ok
       THEN OutputFails
       ELSE /\ buffer' = ClearedBuffer(buffer)
            /\ total_samples' = 0
            /\ IF HighConfidence(st_log[Len(st_log)].out.confidence)
               THEN /\ st_log' = Delivered(st_log, "pending")
                    /\ st_pc' = "close_verdict"
               ELSE /\ st_log' = Delivered(st_log, "none")
                    /\ st_pc' = "receive"
            /\ UNCHANGED st_close
    /\ UNCHANGED <<st_chunks, st_rate_checked>>
    /\ UNCHANGED STOthers

\* huggingface_amd.py:310-311: close(code=1000) returns and the loop breaks
stream_close_verdict(ok) ==
    /\ st_pc = "close_verdict"
    /\ IF ~ok
       THEN OutputFails
       ELSE /\ st_log' = Ended(st_log, "closed")
            /\ st_close' = 1000
            /\ st_pc' = "done"
            /\ UNCHANGED <<buffer, total_samples>>
    /\ UNCHANGED <<st_chunks, st_rate_checked>>
    /\ UNCHANGED STOthers

\* huggingface_amd.py:332: the break that ends the loop after a timeout
AfterTimeout_KeepsReceiving == "receive"
AfterTimeout == "done"

\* huggingface_amd.py:313-328: no message within the 5 s of wait_for; with
\* audio in the buffer the handler runs up to the await of send_json
stream_timeout(out) ==
    /\ st_pc = "receive"
    /\ LET audio_array == get_audio_array(buffer)
           call == PredictCall(audio_array, handle)
           dur == get_duration_ms(total_samples)
       IN  IF is_empty(buffer)
           THEN /\ st_log' = Append(st_log,
                      LogEntry("timeout", 0, dur, FALSE, NoCall, PredictRaises,
                               NoMessage, "returned"))
                /\ st_pc' = AfterTimeout
                /\ UNCHANGED st_close
           ELSE IF audio_array.raised
           THEN StreamFails("timeout", 0, dur, TRUE, NoCall, PredictRaises,
                            "ValueError")
           ELSE IF out.raised
           THEN StreamFails("timeout", 0, dur, TRUE, call, out, "predict")
           ELSE /\ st_log' = Append(st_log,
                      Pending("timeout", 0, dur, TRUE, call, out,
                              TimeoutResponse(out, dur)))
                /\ st_pc' = "send_timeout"
                /\ UNCHANGED st_close
    /\ UNCHANGED <<buffer, total_samples, st_chunks, st_rate_checked>>
    /\ UNCHANGED STOthers

\* huggingface_amd.py:330: send_json of the timeout verdict returns
stream_send_timeout(ok) ==
    /\ st_pc = "send_timeout"
    /\ IF ~ok
       THEN OutputFails
       ELSE /\ st_log' = Delivered(st_log, "pending")
            /\ st_pc' = "close_timeout"
            /\ UNCHANGED <<buffer, total_samples, st_close>>
    /\ UNCHANGED <<st_chunks, st_rate_checked>>
    /\ UNCHANGED STOthers

\* huggingface_amd.py:331-332: close(code=1000) returns and the loop breaks
stream_close_timeout(ok) ==
    /\ st_pc = "close_timeout"
    /\ IF ~ok
       THEN OutputFails
       ELSE /\ st_log' = Ended(st_log, "closed")
            /\ st_close' = 1000
            /\ st_pc' = AfterTimeout
            /\ UNCHANGED <<buffer, total_samples>>
    /\ UNCHANGED <<st_chunks, st_rate_checked>>
    /\ UNCHANGED STOthers

\* huggingface_amd.py:338-343: send_json of the error message returns
stream_send_error(ok) ==
    /\ st_pc = "send_error"
    /\ IF ~ok
       THEN OutputFails
       ELSE /\ st_log' = Delivered(st_log, "pending")
            /\ st_pc' = "close_error"
            /\ UNCHANGED <<buffer, total_samples, st_close>>
    /\ UNCHANGED <<st_chunks, st_rate_checked>>
    /\ UNCHANGED STOthers

\* huggingface_amd.py:344-346: close(code=1011) returns, or raises into the
\* bare except
stream_close_error(ok) ==
    /\ st_pc = "close_error"
    /\ IF ~ok
       THEN OutputFails
       ELSE /\ st_log' = Ended(st_log, "error")
            /\ st_close' = 1011
            /\ st_pc' = "done"
            /\ UNCHANGED <<buffer, total_samples>>
    /\ UNCHANGED <<st_chunks, st_rate_checked>>
    /\ UNCHANGED STOthers

\* huggingface_amd.py:334-335: the handler of WebSocketDisconnect is outside
\* the loop and only logs; stream_amd returns
AfterDisconnect_KeepsReceiving == "receive"
AfterDisconnect == "done"

\* huggingface_amd.py:334-335: receive_bytes raises WebSocketDisconnect
stream_disconnect ==
    /\ st_pc = "receive"
    /\ st_log' = Append(st_log,
          LogEntry("disconnect", 0, 0, ~is_empty(buffer), NoCall, PredictRaises,
                   NoMessage, "disconnected"))
    /\ st_pc' = AfterDisconnect
    /\ UNCHANGED <<buffer, total_samples, st_close, st_chunks, st_rate_checked>>
    /\ UNCHANGED STOthers

\* what a text frame does to receive_bytes: the ASGI message has no "bytes"
\* key (uvicorn, which main.py runs) and message["bytes"] raises KeyError; or
\* it has the key with None, receive_bytes returns None, buffer.append stores
\* it (audio_processing.py:25) and len(None) raises TypeError (line 26)
TextFrameErrors == {"KeyError", "TypeError"}
NoneChunk == [id |-> 0, len |-> 0, none |-> TRUE]

\* huggingface_amd.py:279-283, 336-338: a text message arrives and the
\* handler for other exceptions runs
stream_receive_text(e) ==
    /\ st_pc = "receive"
    /\ buffer' = IF e = "TypeError" THEN Append(buffer, NoneChunk) ELSE buffer
    /\ StreamFails("text", 0, 0, ~is_empty(buffer), NoCall, PredictRaises, e)
    /\ UNCHANGED <<total_samples, st_chunks, st_rate_checked>>
    /\ UNCHANGED STOthers

STNext ==
    \/ \E len \in ChunkLengths :
          \E out \in PredictOutcomes(handle) : stream_receive_chunk(len, out)
    \/ \E ok \in BOOLEAN : stream_send_verdict(ok)
    \/ \E ok \in BOOLEAN : stream_close_verdict(ok)
    \/ \E out \in PredictOutcomes(handle) : stream_timeout(out)
    \/ \E ok \in BOOLEAN : stream_send_timeout(ok)
    \/ \E ok \in BOOLEAN : stream_close_timeout(ok)
    \/ \E ok \in BOOLEAN : stream_send_error(ok)
    \/ \E ok \in BOOLEAN : stream_close_error(ok)
    \/ stream_disconnect
    \/ \E e \in TextFrameErrors : stream_receive_text(e)

\* a session opens in a process whose model is loaded (a one-shot request has
\* loaded it) or is not: stream_amd itself never loads it
InitStream ==
    /\ RLInit /\ STInit /\ OSInit /\ HLInit /\ TRInit
    /\ handle \in {"unloaded", "loaded"}
    /\ load_lock = "none"
    /\ ld_pc = [c \in Callers |-> "idle"]
    /\ ld_seen = [c \in Callers |-> "unloaded"]
    /\ ld_calls = 0 /\ ld_loads = 0 /\ ld_fails = 0

SpecStream == InitStream /\ [][STNext]_vars

\* ---- views of the session's history
Iterations == DOMAIN st_log
Classified(i) == st_log[i].call.made
Returned(i) == st_log[i].call.made /\ ~st_log[i].out.raised
EmittedVerdict(i) ==
    /\ st_log[i].msg.kind = "verdict"
    /\ st_log[i].msg.label = st_log[i].out.label
    /\ st_log[i].msg.confidence = st_log[i].out.confidence
\* the iteration handed the classifier's verdict to send_json
SentVerdict(i) ==
    /\ st_log[i].tosend.kind = "verdict"
    /\ st_log[i].tosend.label = st_log[i].out.label
    /\ st_log[i].tosend.confidence = st_log[i].out.confidence
\* the client was gone when the iteration sent or closed
SocketFailed(i) == st_log[i].end = "lost"
\* the handler is past the loop's receive_bytes for good
Leaving == st_pc # "receive"

\* C5 (as stated): a classification runs after appending a chunk if and only
\* if the buffer duration after the append is at least BUFFER_SIZE_MS; below
\* the threshold the iteration calls no classifier and emits nothing.
C5_ClassifiesIffThresholdReached ==
    \A i \in Iterations :
        st_log[i].event = "chunk" =>
            /\ Classified(i) <=> st_log[i].duration >= BUFFER_SIZE_MS
            /\ st_log[i].duration < BUFFER_SIZE_MS =>
                  ~Classified(i) /\ st_log[i].msg.kind = "none"

\* what the code does for C5: below the threshold nothing is classified or
\* emitted; at or above it the classifier is called exactly when the buffered
\* bytes decode, that is when their total is even
C5_ClassifiesIffThresholdReachedAndDecodable ==
    \A i \in Iterations :
        st_log[i].event = "chunk" =>
            /\ Classified(i) =>
                  st_log[i].duration >= BUFFER_SIZE_MS
            /\ st_log[i].duration >= BUFFER_SIZE_MS =>
                  (Classified(i) <=> st_log[i].tosend.error # "ValueError")
            /\ st_log[i].duration < BUFFER_SIZE_MS =>
                  /\ ~Classified(i)
                  /\ st_log[i].tosend.kind = "none" /\ st_log[i].msg.kind = "none"

\* C6 (as stated): an idle timeout on a non-empty buffer runs one
\* classification, emits one verdict tagged reason = "timeout" and closes the
\* session, whatever the confidence.
C6_TimeoutEmitsOneTimeoutVerdict ==
    \A i \in Iterations :
        st_log[i].event = "timeout" /\ st_log[i].had_audio =>
            /\ Classified(i)
            /\ SentVerdict(i)
            /\ st_log[i].tosend.reason = "timeout"
            /\ st_log[i].end \in {"pending", "closed", "lost"}
            /\ i = Len(st_log) /\ Leaving
            /\ st_log[i].end = "closed" =>
                  EmittedVerdict(i) /\ st_pc = "done" /\ st_close = 1000

\* what the code does for C6 when the buffer decodes and predict returns
C6_TimeoutVerdictWhenPredictReturns ==
    \A i \in Iterations :
        st_log[i].event = "timeout" /\ st_log[i].had_audio =>
            /\ i = Len(st_log) /\ Leaving
            /\ Returned(i) =>
                  /\ SentVerdict(i) /\ st_log[i].tosend.reason = "timeout"
                  /\ st_log[i].end = "closed" =>
                        EmittedVerdict(i) /\ st_pc = "done" /\ st_close = 1000
            /\ ~Returned(i) =>
                  /\ st_log[i].tosend.kind = "error"
                  /\ st_log[i].end = "error" =>
                        /\ st_log[i].msg.kind = "error"
                        /\ st_pc = "done" /\ st_close = 1011
            /\ st_close # 0 => st_log[i].end \in {"closed", "error"}

\* C7: when a chunk-triggered classification returns a confidence above
\* CONFIDENCE_THRESHOLD, the session sends that verdict, then closes with
\* code 1000, and takes no further chunk: the iteration is the session's
\* last.  Once the iteration is over the verdict is out and the socket is
\* closed with 1000, unless the client was gone when the handler sent or
\* closed, in which case the session has ended all the same.
C7_HighConfidenceCloses ==
    \A i \in Iterations :
        (/\ st_log[i].event = "chunk"
         /\ Returned(i)
         /\ st_log[i].out.confidence > CONFIDENCE_THRESHOLD) =>
            /\ SentVerdict(i)
            /\ st_log[i].tosend.reason = "none"
            /\ i = Len(st_log)
            /\ st_chunks = st_log[i].chunks_so_far
            /\ st_pc \in {"send_verdict", "close_verdict", "done"}
            /\ st_pc = "close_verdict" => EmittedVerdict(i)
            /\ (st_pc = "done" /\ ~SocketFailed(i)) =>
                  EmittedVerdict(i) /\ st_close = 1000
            /\ SocketFailed(i) => st_pc = "done" /\ st_close = 0

\* a chunk-triggered classification returned 0.95 and the session closed
C7_Witness ==
    /\ st_log # <<>>
    /\ st_log[Len(st_log)].event = "chunk"
    /\ Returned(Len(st_log))
    /\ st_log[Len(st_log)].out.confidence = 950
    /\ st_log[Len(st_log)].msg.confidence = 950
    /\ st_pc = "done" /\ st_close = 1000
    /\ st_chunks < MaxChunks

\* C8: when a chunk-triggered classification returns a confidence that does
\* not exceed CONFIDENCE_THRESHOLD, the verdict is emitted, the buffer is
\* cleared (no chunks, sample count 0), the session is neither closed nor
\* ended by that iteration, and every later classification decodes only
\* chunks received after it.  The one way the iteration ends the session is
\* a client that was gone when the verdict was sent.
C8_LowConfidenceClearsAndContinues ==
    \A i \in Iterations :
        (/\ st_log[i].event = "chunk"
         /\ Returned(i)
         /\ ~(st_log[i].out.confidence > CONFIDENCE_THRESHOLD)) =>
            /\ SentVerdict(i)
            /\ st_log[i].end \in {"pending", "none", "lost"}
            /\ st_log[i].end = "pending" =>
                  i = Len(st_log) /\ st_pc = "send_verdict"
            /\ st_log[i].end = "none" =>
                  /\ EmittedVerdict(i)
                  /\ i = Len(st_log) =>
                        /\ buffer = <<>> /\ total_samples = 0
                        /\ st_pc = "receive" /\ st_close = 0
            /\ SocketFailed(i) =>
                  i = Len(st_log) /\ st_pc = "done" /\ st_close = 0
            /\ \A j \in Iterations :
                  j > i /\ Classified(j) =>
                      \A c \in st_log[j].call.array.chunks :
                          c > st_log[i].chunks_so_far
            /\ (i < Len(st_log) /\ st_log[i + 1].event = "chunk") =>
                  st_log[i + 1].duration =
                      get_duration_ms(st_log[i + 1].len \div 2)

\* a verdict at exactly the threshold (0.7) left the session buffering, and a
\* later classification ran on the chunks received after it
C8_Witness ==
    \E i, j \in Iterations :
        /\ i < j
        /\ st_log[i].event = "chunk" /\ Returned(i)
        /\ st_log[i].out.confidence = CONFIDENCE_THRESHOLD
        /\ EmittedVerdict(i) /\ st_log[i].end = "none"
        /\ Classified(j)
        /\ st_log[j].call.array.chunks # {}
        /\ \A c \in st_log[j].call.array.chunks : c > st_log[i].chunks_so_far

\* C9 (as stated): every array handed to the classifier by the session is
\* the output of the preprocessing pipeline (trim_silence, normalize_audio).
C9_StreamPreprocessesBeforePredict ==
    \A i \in Iterations :
        Classified(i) =>
            st_log[i].call.array.trimmed /\ st_log[i].call.array.normalized

(***************************************************************************)
(* One-shot requests: validation (security.py:106-182,                     *)
(* audio_processing.py:150-164, response_parser.py:51-54)                  *)
(***************************************************************************)
\* config.py:45, 27, 28
MIN_AUDIO_SIZE_BYTES == 1000
HF_SAMPLE_RATE == 16000
MAX_AUDIO_LENGTH_SECONDS == 10
\* security.py:106 and the max_size_mb=10 of both handlers
MAX_SIZE_MB == 10

Rep(c, n) == [i \in 1..n |-> c]
HexChars == {"0", "1", "2", "3", "4", "5", "6", "7", "8", "9",
             "a", "b", "c", "d", "e", "f"}
\* re.IGNORECASE
ToLower(c) ==
    CASE c = "A" -> "a" [] c = "B" -> "b" [] c = "C" -> "c" [] c = "D" -> "d"
      [] c = "E" -> "e" [] c = "F" -> "f" [] c = "X" -> "x" [] OTHER -> c

\* X-Call-SID headers: absent, well formed (upper case hex), one digit short
SidAbsent == [given |-> FALSE, chars |-> <<>>]
SidUpper == [given |-> TRUE, chars |-> <<"C", "A">> \o Rep("F", 32)]
SidShort == [given |-> TRUE, chars |-> <<"C", "A">> \o Rep("0", 31)]

\* security.py:181-182: re.match(r'^CA[a-f0-9]{32}$', call_sid, re.IGNORECASE)
\* (a header value holds no line break, so $ is the end of the value)
MatchesPattern(cs) ==
    /\ Len(cs) = 34
    /\ ToLower(cs[1]) = "c" /\ ToLower(cs[2]) = "a"
    /\ \A i \in 3..34 : ToLower(cs[i]) \in HexChars

\* security.py:168-182
validate_call_sid(sid) ==
    IF ~sid.given \/ sid.chars = <<>> THEN TRUE ELSE MatchesPattern(sid.chars)

\* huggingface_amd.py:215, gemini_amd.py:144
CallSidRejected(sid) ==
    (sid.given /\ sid.chars # <<>>) /\ ~validate_call_sid(sid)

\* security.py:118-126
AllowedContentTypes ==
    {"audio/wav", "audio/mpeg", "audio/mp3", "audio/mp4", "audio/x-wav",
     "audio/wave", "application/octet-stream"}

\* security.py:117-139: 0 when the file passes, else the status raised.  The
\* size is looked at only when the upload carries one (hasattr(file, 'size')
\* and file.size)
validate_audio_file_AnyType(content_type, has_size, size, max_size_mb) ==
    IF has_size /\ size # 0 /\ size > max_size_mb * 1024 * 1024
    THEN 413
    ELSE 0
validate_audio_file_NoSizeLimit(content_type, has_size, size, max_size_mb) ==
    IF content_type \notin AllowedContentTypes THEN 400 ELSE 0
validate_audio_file(content_type, has_size, size, max_size_mb) ==
    IF content_type \notin AllowedContentTypes THEN 400
    ELSE IF has_size /\ size # 0 /\ size > max_size_mb * 1024 * 1024
    THEN 413
    ELSE 0

\* audio_processing.py:150-164 and response_parser.py:51-54
validate_audio_buffer(length, min_size) ==
    ~(length = 0 \/ length < min_size)

\* the requests sent to the one-shot routes: the header absent, well formed
\* and malformed; an allowed and a disallowed content type; payloads under
\* the minimum (an empty one among them, whose size 0 the size check takes
\* for no size), at it, odd, of 10 MB exactly (it decodes to more samples
\* than the length cap keeps) and over 10 MB.  The UploadFile the multipart
\* parser builds always has a size, the number of bytes written to it.
\* Only /predict has the preprocess parameter (huggingface_amd.py:195); FALSE
\* stands for its absence.
\* The payload is raw PCM, a 16-bit mono WAV file at the target rate, or such
\* a file whose data chunk holds no frame (the bytes after it make up the
\* length); only /predict decodes the payload, and the WAV ones are 1000
\* bytes long.  The uploads of 10 MB come with an allowed content type and
\* no X-Call-SID header.
\* The multipart parser keeps an upload in memory up to 1 MB and rolls a
\* longer one to a file on disk; UploadFile.read returns at once on the
\* former and awaits a worker thread on the latter
SPOOL_MAX_SIZE == 1048576
\* the requests come from one client: what the limiter does for two is in
\* SpecRL
RequestIps == {"ip1"}
RequestCallSids == {SidAbsent, SidUpper, SidShort}
RequestContentTypes == {"audio/wav", "text/plain"}
RequestLengths == {0, 999, 1000, 1001, 10485760, 10485762}
PayloadFormats == {"pcm", "wav", "wav_no_frames"}
Requests ==
    {r \in [route : {"predict", "gemini"}, ip : RequestIps,
            call_sid : RequestCallSids, content_type : RequestContentTypes,
            has_size : {TRUE}, length : RequestLengths,
            format : PayloadFormats, preprocess : BOOLEAN] :
        /\ r.route = "gemini" => ~r.preprocess
        /\ r.format # "pcm" => r.route = "predict" /\ r.length = 1000
        /\ r.length = MAX_SIZE_MB * 1024 * 1024 =>
              r.call_sid = SidAbsent /\ r.content_type = "audio/wav"}

Reply(status, detail) == [NoReply EXCEPT !.status_code = status, !.detail = detail]
Verdict(label, confidence, detail) ==
    [NoReply EXCEPT !.status_code = 200, !.label = label,
                    !.confidence = confidence, !.detail = detail]

\* a request arrives while the event loop runs no handler (others may be
\* suspended at their read), and its handler starts
os_request(req) ==
    /\ os_pc = "idle"
    /\ os_served < MaxServed
    /\ req.length > SPOOL_MAX_SIZE => Len(os_suspended) < MaxSuspended
    /\ os_served' = os_served + 1
    /\ os_req' = req
    /\ os_events' = <<>>
    /\ os_resp' = NoReply
    /\ os_array' = NoArray
    /\ os_file' = "none"
    /\ os_polls' = 0
    /\ os_pc' = "rate_limit"
    /\ UNCHANGED <<gemini_key, os_suspended>>
    /\ UNCHANGED <<rl_vars, ld_vars, st_vars, hl_vars, tr_vars>>

\* huggingface_amd.py:211-212, gemini_amd.py:140-141: check_rate_limit with
\* the whole of is_allowed (the handler is the only caller on the event loop)
os_rate_limit ==
    /\ os_pc = "rate_limit"
    /\ LET kept == CleanOld(requests[os_req.ip], clock)
       IN  IF AtLimit(kept)
           THEN /\ requests' = [requests EXCEPT ![os_req.ip] = kept]
                /\ os_resp' = [Reply(429, "Rate limit exceeded") EXCEPT
                                  !.retry_after = RateLimitResponse(FALSE).retry_after]
                /\ os_events' = Append(os_events, "rate_deny")
                /\ os_pc' = "responded"
           ELSE /\ requests' = [requests EXCEPT ![os_req.ip] = Append(kept, clock)]
                /\ os_events' = Append(os_events, "rate_allow")
                /\ os_pc' = "call_sid"
                /\ UNCHANGED os_resp
    /\ UNCHANGED <<os_req, os_array, os_file, os_polls, os_served, gemini_key,
                   os_suspended>>
    /\ UNCHANGED <<lock, clock, rl_pc, rl_id, rl_now, rl_ret, rl_idx, rl_log>>
    /\ UNCHANGED <<ld_vars, st_vars, hl_vars, tr_vars>>

\* huggingface_amd.py:215-219, gemini_amd.py:144-148
os_validate_call_sid ==
    /\ os_pc = "call_sid"
    /\ IF CallSidRejected(os_req.call_sid)
       THEN /\ os_resp' = Reply(400, "Invalid Call SID format")
            /\ os_pc' = "responded"
       ELSE /\ os_pc' = "audio_file"
            /\ UNCHANGED os_resp
    /\ UNCHANGED <<os_req, os_events, os_array, os_file, os_polls, os_served,
                   gemini_key, os_suspended>>
    /\ UNCHANGED <<rl_vars, ld_vars, st_vars, hl_vars, tr_vars>>

\* huggingface_amd.py:222, gemini_amd.py:151
os_validate_audio_file ==
    /\ os_pc = "audio_file"
    /\ LET status == validate_audio_file(os_req.content_type, os_req.has_size,
                                         os_req.length, MAX_SIZE_MB)
       IN  IF status # 0
           THEN /\ os_resp' = Reply(status, "validate_audio_file")
                /\ os_pc' = "responded"
           ELSE /\ os_pc' = "read"
                /\ UNCHANGED os_resp
    /\ UNCHANGED <<os_req, os_events, os_array, os_file, os_polls, os_served,
                   gemini_key, os_suspended>>
    /\ UNCHANGED <<rl_vars, ld_vars, st_vars, hl_vars, tr_vars>>

Rolled(req) == req.length > SPOOL_MAX_SIZE

\* huggingface_amd.py:229-233, gemini_amd.py:158-162: validate_audio_buffer
\* on the bytes read
ReplyAfterRead(req) ==
    IF ~validate_audio_buffer(req.length, MIN_AUDIO_SIZE_BYTES)
    THEN Reply(400, "Audio file too small")
    ELSE NoReply
PcAfterRead(req) ==
    IF ~validate_audio_buffer(req.length, MIN_AUDIO_SIZE_BYTES)
    THEN "responded"
    ELSE IF req.route = "predict" THEN "hf_ensure" ELSE "gem_key"

\* huggingface_amd.py:227-233, gemini_amd.py:156-162: the upload is in
\* memory and await audio.read() does not leave the handler
os_read ==
    /\ os_pc = "read"
    /\ ~Rolled(os_req)
    /\ os_resp' = ReplyAfterRead(os_req)
    /\ os_pc' = PcAfterRead(os_req)
    /\ UNCHANGED <<os_req, os_events, os_array, os_file, os_polls, os_served,
                   gemini_key, os_suspended>>
    /\ UNCHANGED <<rl_vars, ld_vars, st_vars, hl_vars, tr_vars>>

\* huggingface_amd.py:227, gemini_amd.py:156: the upload is on disk; the
\* handler is suspended at await audio.read() and the event loop is free for
\* another handler
os_read_suspend ==
    /\ os_pc = "read"
    /\ Rolled(os_req)
    /\ os_suspended' = Append(os_suspended,
                              [req |-> os_req, events |-> os_events])
    /\ os_pc' = "idle"
    /\ os_req' = NoRequest
    /\ os_events' = <<>>
    /\ UNCHANGED <<os_resp, os_array, os_file, os_polls, os_served, gemini_key>>
    /\ UNCHANGED <<rl_vars, ld_vars, st_vars, hl_vars, tr_vars>>

Without(seq, k) == SubSeq(seq, 1, k - 1) \o SubSeq(seq, k + 1, Len(seq))

\* huggingface_amd.py:227-233, gemini_amd.py:156-162: the read of a
\* suspended handler is over and the event loop, which runs no other
\* handler, goes on with it
os_read_resume(k) ==
    /\ os_pc = "idle"
    /\ k \in DOMAIN os_suspended
    /\ os_suspended' = Without(os_suspended, k)
    /\ os_req' = os_suspended[k].req
    /\ os_events' = os_suspended[k].events
    /\ os_resp' = ReplyAfterRead(os_suspended[k].req)
    /\ os_pc' = PcAfterRead(os_suspended[k].req)
    /\ UNCHANGED <<os_array, os_file, os_polls, os_served, gemini_key>>
    /\ UNCHANGED <<rl_vars, ld_vars, st_vars, hl_vars, tr_vars>>

(***************************************************************************)
(* HuggingFaceAMDDetector.analyze_audio (huggingface_amd.py:76-147)        *)
(***************************************************************************)
\* audio_processing.py:94-120: a WAV file gives the frames of its data chunk,
\* one sample per 16-bit mono frame after the 44 bytes of the header, none
\* when the chunk is empty.  audio_processing.py:122-125: a payload with no
\* WAV header is read as raw 16-bit PCM; np.frombuffer raises on an odd
\* number of bytes
load_audio_from_bytes(length, format) ==
    IF format = "wav_no_frames" THEN NoArray
    ELSE IF format = "wav" THEN [NoArray EXCEPT !.len = (length - 44) \div 2]
    ELSE IF length % 2 # 0 THEN [NoArray EXCEPT !.raised = TRUE]
    ELSE [NoArray EXCEPT !.len = length \div 2]

\* huggingface_amd.py:104
EmptyArray_Never(arr) == FALSE
EmptyArray(arr) == arr.len = 0

\* where the decoded samples are above the threshold: nowhere, or from the
\* index first to the index last (audio_processing.py:183-189).  The
\* payloads have sound from end to end, between a silent first and a silent
\* last sample, in the second half only, or in one sample in the middle
NoSound == [loud |-> FALSE, first |-> 0, last |-> 0]
Sound(first, last) == [loud |-> TRUE, first |-> first, last |-> last]
SoundPlacements(len) ==
    {NoSound} \cup
    {snd \in {Sound(0, len - 1), Sound(1, len - 2),
              Sound(len \div 2, len - 1), Sound(len \div 2, len \div 2)} :
        0 <= snd.first /\ snd.first <= snd.last /\ snd.last < len}

\* audio_processing.py:185-191: the array as it is when no sample is above
\* the threshold, else audio_array[first_sound:last_sound + 1]
trim_silence(arr, snd) ==
    IF ~snd.loud
    THEN [arr EXCEPT !.trimmed = TRUE]
    ELSE [arr EXCEPT !.len = (snd.last + 1) - snd.first, !.trimmed = TRUE]
\* audio_processing.py:205-211
normalize_audio(arr) == [arr EXCEPT !.normalized = TRUE]

\* huggingface_amd.py:114-117
Truncated(arr) ==
    IF arr.len > HF_SAMPLE_RATE * MAX_AUDIO_LENGTH_SECONDS
    THEN [arr EXCEPT !.len = HF_SAMPLE_RATE * MAX_AUDIO_LENGTH_SECONDS]
    ELSE arr

\* huggingface_amd.py:94, 63-74: the whole of _ensure_model_loaded; a load
\* that raises leaves analyze_audio (the call is outside its try) and
\* predict_amd answers 500 (huggingface_amd.py:242-247)
os_hf_ensure(ok) ==
    /\ os_pc = "hf_ensure"
    /\ IF ~FirstCheckMisses(handle)
       THEN /\ os_pc' = "hf_decode"
            /\ UNCHANGED <<handle, os_events, os_resp>>
       ELSE /\ os_events' = Append(os_events, "load")
            /\ IF ok
               THEN /\ handle' = HandleOnLoadDone(HandleOnLoadStart(handle))
                    /\ os_pc' = "hf_decode"
                    /\ UNCHANGED os_resp
               ELSE /\ handle' = HandleOnLoadError(HandleOnLoadStart(handle))
                    /\ os_resp' = Reply(500, "Internal server error")
                    /\ os_pc' = "responded"
    /\ UNCHANGED <<os_req, os_array, os_file, os_polls, os_served, gemini_key,
                   os_suspended>>
    /\ UNCHANGED <<load_lock, ld_pc, ld_seen, ld_calls, ld_loads, ld_fails>>
    /\ UNCHANGED <<rl_vars, st_vars, hl_vars, tr_vars>>

\* huggingface_amd.py:99-108, 138-147
os_hf_decode ==
    /\ os_pc = "hf_decode"
    /\ os_events' = Append(os_events, "decode")
    /\ LET arr == load_audio_from_bytes(os_req.length, os_req.format)
       IN  IF arr.raised \/ EmptyArray(arr)
           THEN /\ os_resp' = Verdict("unknown", 0, "Processing error")
                /\ os_pc' = "responded"
                /\ UNCHANGED os_array
           ELSE /\ os_array' = arr
                /\ os_pc' = "hf_preprocess"
                /\ UNCHANGED os_resp
    /\ UNCHANGED <<os_req, os_file, os_polls, os_served, gemini_key, os_suspended>>
    /\ UNCHANGED <<rl_vars, ld_vars, st_vars, hl_vars, tr_vars>>

\* huggingface_amd.py:110-117
os_hf_preprocess(snd) ==
    /\ os_pc = "hf_preprocess"
    /\ snd \in SoundPlacements(os_array.len)
    /\ IF os_req.preprocess
       THEN /\ os_array' =
                  Truncated(normalize_audio(trim_silence(os_array, snd)))
            /\ os_events' = Append(os_events, "preprocess")
       ELSE /\ os_array' = Truncated(os_array)
            /\ UNCHANGED os_events
    /\ os_pc' = "hf_predict"
    /\ UNCHANGED <<os_req, os_resp, os_file, os_polls, os_served, gemini_key,
                   os_suspended>>
    /\ UNCHANGED <<rl_vars, ld_vars, st_vars, hl_vars, tr_vars>>

\* huggingface_amd.py:119-147
os_hf_predict(out) ==
    /\ os_pc = "hf_predict"
    /\ os_events' = Append(os_events, "classify")
    /\ os_resp' = IF out.raised
                  THEN Verdict("unknown", 0, "Processing error")
                  ELSE Verdict(out.label, out.confidence, "reasoning")
    /\ os_pc' = "responded"
    /\ UNCHANGED <<os_req, os_array, os_file, os_polls, os_served, gemini_key,
                   os_suspended>>
    /\ UNCHANGED <<rl_vars, ld_vars, st_vars, hl_vars, tr_vars>>

(***************************************************************************)
(* GeminiAMDDetector.analyze_audio (gemini_amd.py:44-119)                  *)
(***************************************************************************)
\* states a file is reported in by upload_file and get_file, or the call raises
FileReports == {"raise", "PROCESSING", "ACTIVE", "FAILED"}

\* the text of a reply, by what parse_gemini_response looks at: whether it
\* holds a {...} group and whether that loads as JSON; the group's
\* classification (as written) and confidence (absent, a number in
\* thousandths, or a value float() rejects); and which of the words human,
\* machine and voicemail the lower-cased text holds.  A classification
\* written in the text puts its word in it; the replies whose JSON is taken
\* hold no other word, the text not being searched for them
RawConfidences == {-100, 850, 1500}
ReplyClassifications == {"absent", "HUMAN", "machine", "UNKNOWN", "ROBOT"}
ReplyWords == {"human", "machine", "voicemail"}
WordsOf(k) ==
    CASE k = "HUMAN" -> {"human"} [] k = "machine" -> {"machine"}
      [] OTHER -> {}
Replies ==
    {r \in [json : {"none", "invalid", "object"},
            classification : ReplyClassifications,
            conf_kind : {"absent", "bad", "number"},
            conf_value : RawConfidences \cup {0},
            words : SUBSET ReplyWords] :
        /\ r.json # "object" =>
              r.classification = "absent" /\ r.conf_kind = "absent"
        /\ (r.conf_kind = "number") <=> (r.conf_value \in RawConfidences)
        /\ WordsOf(r.classification) \subseteq r.words
        /\ (r.json = "object" /\ r.conf_kind # "bad") =>
              r.words = WordsOf(r.classification)}

\* response_parser.py:15-17: .upper() and the list of known classifications
Classification(k) ==
    CASE k = "HUMAN" -> "HUMAN" [] k = "machine" -> "MACHINE"
      [] OTHER -> "UNKNOWN"
\* response_parser.py:20
Clamp(c) == IF c < 0 THEN 0 ELSE IF c > 1000 THEN 1000 ELSE c
\* response_parser.py:9-48 (confidences in thousandths): the JSON group when
\* there is one, it loads and float() takes its confidence, 0.5 standing for
\* an absent one; else the search of the text
parse_gemini_response(r) ==
    IF r.json = "object" /\ r.conf_kind # "bad"
    THEN [classification |-> Classification(r.classification),
          confidence |-> IF r.conf_kind = "absent" THEN 500
                         ELSE Clamp(r.conf_value)]
    ELSE IF "human" \in r.words /\ "machine" \notin r.words
    THEN [classification |-> "HUMAN", confidence |-> 700]
    ELSE IF "machine" \in r.words \/ "voicemail" \in r.words
    THEN [classification |-> "MACHINE", confidence |-> 700]
    ELSE [classification |-> "UNKNOWN", confidence |-> 300]
ParsedReplies == {parse_gemini_response(r) : r \in Replies}

\* generate_content raises, is blocked (no candidates), or replies
NoText == [json |-> "none", classification |-> "absent",
           conf_kind |-> "absent", conf_value |-> 0, words |-> {}]
GenerateOutcomes ==
    {[kind |-> "raise", reply |-> NoText], [kind |-> "blocked", reply |-> NoText]}
    \cup {[kind |-> "reply", reply |-> r] : r \in Replies}

\* gemini_amd.py:109-119
GeminiError == Verdict("UNDECIDED", 300, "Processing error")

\* gemini_amd.py:49-53
os_gem_key ==
    /\ os_pc = "gem_key"
    /\ IF ~gemini_key
       THEN /\ os_resp' = Reply(503, "Gemini API key not configured")
            /\ os_pc' = "responded"
       ELSE /\ os_pc' = "gem_upload"
            /\ UNCHANGED os_resp
    /\ UNCHANGED <<os_req, os_events, os_array, os_file, os_polls, os_served,
                   gemini_key, os_suspended>>
    /\ UNCHANGED <<rl_vars, ld_vars, st_vars, hl_vars, tr_vars>>

\* gemini_amd.py:56-60
os_gem_upload(report) ==
    /\ os_pc = "gem_upload"
    /\ os_events' = Append(os_events, "upload")
    /\ IF report = "raise"
       THEN /\ os_resp' = GeminiError
            /\ os_pc' = "responded"
            /\ UNCHANGED os_file
       ELSE /\ os_file' = report
            /\ os_pc' = "gem_poll"
            /\ UNCHANGED os_resp
    /\ UNCHANGED <<os_req, os_array, os_polls, os_served, gemini_key, os_suspended>>
    /\ UNCHANGED <<rl_vars, ld_vars, st_vars, hl_vars, tr_vars>>

\* gemini_amd.py:62: the condition of the polling loop
StillProcessing(file) == file = "PROCESSING"
\* gemini_amd.py:66
UploadFailed_Never(file) == FALSE
UploadFailed(file) == file = "FAILED"

\* gemini_amd.py:62-64: one turn of the polling loop
os_gem_poll(report) ==
    /\ os_pc = "gem_poll"
    /\ StillProcessing(os_file)
    /\ report = "PROCESSING" => os_polls + 1 < MaxPolls
    /\ os_polls' = os_polls + 1
    /\ os_events' = Append(os_events, "poll")
    /\ IF report = "raise"
       THEN /\ os_resp' = GeminiError
            /\ os_pc' = "responded"
            /\ UNCHANGED os_file
       ELSE /\ os_file' = report
            /\ UNCHANGED <<os_pc, os_resp>>
    /\ UNCHANGED <<os_req, os_array, os_served, gemini_key, os_suspended>>
    /\ UNCHANGED <<rl_vars, ld_vars, st_vars, hl_vars, tr_vars>>

\* gemini_amd.py:66-67, 109-119
os_gem_failed ==
    /\ os_pc = "gem_poll"
    /\ ~StillProcessing(os_file)
    /\ UploadFailed(os_file)
    /\ os_resp' = GeminiError
    /\ os_pc' = "responded"
    /\ UNCHANGED <<os_req, os_events, os_array, os_file, os_polls, os_served,
                   gemini_key, os_suspended>>
    /\ UNCHANGED <<rl_vars, ld_vars, st_vars, hl_vars, tr_vars>>

\* gemini_amd.py:69-119: generate_content, parse_gemini_response, then
\* delete_file and the reply
os_gem_generate(outcome, delete_ok) ==
    /\ os_pc = "gem_poll"
    /\ ~StillProcessing(os_file)
    /\ ~UploadFailed(os_file)
    /\ os_pc' = "responded"
    /\ IF outcome.kind = "raise"
       THEN /\ os_events' = Append(os_events, "classify")
            /\ os_resp' = GeminiError
            /\ UNCHANGED os_file
       ELSE IF ~delete_ok
       THEN /\ os_events' = Append(os_events, "classify")
            /\ os_resp' = GeminiError
            /\ UNCHANGED os_file
       ELSE /\ os_events' = os_events \o <<"classify", "delete">>
            /\ os_file' = "deleted"
            /\ os_resp' =
                 IF outcome.kind = "blocked"
                 THEN Verdict("UNDECIDED", 500, "Response blocked by safety filters")
                 ELSE LET result == parse_gemini_response(outcome.reply)
                      IN  IF result.classification \notin
                                {"HUMAN", "MACHINE", "UNDECIDED"}
                          THEN GeminiError
                          ELSE Verdict(result.classification,
                                       result.confidence, "reasoning")
    /\ UNCHANGED <<os_req, os_array, os_polls, os_served, gemini_key, os_suspended>>
    /\ UNCHANGED <<rl_vars, ld_vars, st_vars, hl_vars, tr_vars>>

\* the response is sent; the next request may come
os_done ==
    /\ os_pc = "responded"
    /\ os_pc' = "idle"
    /\ os_req' = NoRequest
    /\ os_events' = <<>>
    /\ os_resp' = NoReply
    /\ os_array' = NoArray
    /\ os_file' = "none"
    /\ os_polls' = 0
    /\ UNCHANGED <<os_served, gemini_key, os_suspended>>
    /\ UNCHANGED <<rl_vars, ld_vars, st_vars, hl_vars, tr_vars>>

\* time passes between two requests (the rate check is the first step of a
\* handler, so time passing later in it changes nothing)
os_tick ==
    /\ os_pc = "idle"
    /\ clock < MaxTime
    /\ clock' = clock + 1
    /\ UNCHANGED <<requests, lock, rl_pc, rl_id, rl_now, rl_ret, rl_idx, rl_log>>
    /\ UNCHANGED <<ld_vars, st_vars, os_vars, hl_vars, tr_vars>>

OSNext ==
    \/ \E req \in Requests : os_request(req)
    \/ os_rate_limit
    \/ os_validate_call_sid
    \/ os_validate_audio_file
    \/ os_read
    \/ os_read_suspend
    \/ \E k \in DOMAIN os_suspended : os_read_resume(k)
    \/ \E ok \in BOOLEAN : os_hf_ensure(ok)
    \/ os_hf_decode
    \/ \E snd \in SoundPlacements(os_array.len) : os_hf_preprocess(snd)
    \/ \E out \in PredictOutcomes(handle) : os_hf_predict(out)
    \/ os_gem_key
    \/ \E report \in FileReports : os_gem_upload(report)
    \/ \E report \in FileReports : os_gem_poll(report)
    \/ os_gem_failed
    \/ \E outcome \in GenerateOutcomes, delete_ok \in BOOLEAN :
          os_gem_generate(outcome, delete_ok)
    \/ os_done
    \/ os_tick

InitOneShot ==
    /\ RLInit /\ LDInit /\ STInit /\ HLInit /\ TRInit
    /\ os_pc = "idle"
    /\ os_req = NoRequest
    /\ os_events = <<>>
    /\ os_resp = NoReply
    /\ os_array = NoArray
    /\ os_file = "none"
    /\ os_polls = 0
    /\ os_served = 0
    /\ gemini_key \in BOOLEAN
    /\ os_suspended = <<>>

SpecOneShot == InitOneShot /\ [][OSNext]_vars

(***************************************************************************)
(* Request-path claims                                                     *)
(***************************************************************************)
\* the steps taken for a request once it is past the checks
ProcessingEvents ==
    {"load", "decode", "preprocess", "upload", "poll", "classify", "delete"}
ProcessingSteps ==
    {"hf_ensure", "hf_decode", "hf_preprocess", "hf_predict",
     "gem_key", "gem_upload", "gem_poll"}
EventsOf(evs) == {evs[i] : i \in 1..Len(evs)}

\* what the request carries, read off the request itself
MalformedCallSid(req) ==
    req.call_sid.given /\ req.call_sid.chars # <<>>
    /\ ~MatchesPattern(req.call_sid.chars)
DisallowedContentType(req) == req.content_type \notin AllowedContentTypes
ReportedOversized(req) == req.has_size /\ req.length > 10 * 1024 * 1024
Undersized(req) == req.length < 1000
FailsValidation(req) ==
    \/ MalformedCallSid(req)
    \/ DisallowedContentType(req)
    \/ ReportedOversized(req)
    \/ Undersized(req)
Denied == "rate_deny" \in EventsOf(os_events)
RateChecked == os_pc \notin {"idle", "rate_limit"}

\* C4: a one-shot request that the rate limiter denied, or whose call
\* identifier is malformed, whose content type is not allowed, whose reported
\* size is over 10 MB or whose payload is under 1000 bytes, never reaches a
\* model load, preprocessing, upload or classifier call, and is answered
\* with a client error (429, 400 or 413); and no request answered with a
\* client error has had any such step taken for it.
C4_RejectedBeforeProcessing ==
    /\ (RateChecked /\ (Denied \/ FailsValidation(os_req))) =>
          /\ os_pc \notin ProcessingSteps
          /\ EventsOf(os_events) \cap ProcessingEvents = {}
          /\ os_pc = "responded" => os_resp.status_code \in {429, 400, 413}
          /\ Denied /\ os_pc = "responded" =>
                os_resp.status_code = 429
                /\ os_resp.retry_after = str(window_seconds)
    /\ (os_pc = "responded" /\ os_resp.status_code \in {429, 400, 413}) =>
          /\ EventsOf(os_events) \cap ProcessingEvents = {}
          /\ Denied \/ FailsValidation(os_req)

\* a request with a disallowed content type, admitted by the rate limiter
\* while the model is loaded by an earlier request, is answered 400 with
\* nothing done for it
C4_Witness ==
    /\ os_pc = "responded"
    /\ os_events = <<"rate_allow">>
    /\ DisallowedContentType(os_req)
    /\ ~MalformedCallSid(os_req)
    /\ os_resp.status_code = 400
    /\ handle = "loaded"

\* the one-shot handlers for C3: a classifier call of a request comes after
\* the rate limiter allowed the request
OneShotGuardedByRateLimiter ==
    "classify" \in EventsOf(os_events) => os_events[1] = "rate_allow"

\* C3 (as stated): every classifier invocation, of a one-shot request and of
\* a streaming session alike, comes after a rate-limiter check for the
\* caller that returned allow.
C3_ClassifierGuardedByRateLimiter ==
    /\ OneShotGuardedByRateLimiter
    /\ \A i \in Iterations : Classified(i) => st_rate_checked

(***************************************************************************)
(* Model lifecycle claims                                                  *)
(***************************************************************************)
\* the one-shot path for C11: analyze_audio is past _ensure_model_loaded
\* (huggingface_amd.py:94) only with the model loaded
OneShotPredictsLoaded ==
    os_pc \in {"hf_decode", "hf_preprocess", "hf_predict"} => is_loaded(handle)

\* C11 (as stated): on every path that reaches model_loader.predict, one-shot
\* and streaming alike, the model is loaded when predict is called.
C11_PredictOnlyWhenLoaded ==
    /\ OneShotPredictsLoaded
    /\ \A i \in Iterations : Classified(i) => st_log[i].call.loaded

\* C12: when load_model raises, the exception reaches the caller that ran
\* it, the load lock is free again (it is only ever held by a caller that is
\* inside the with block), the model is not loaded and no failure is
\* remembered: every load that was started and is neither running nor the
\* one that succeeded has failed, a caller that finds the model not loaded
\* goes for the lock, a caller waiting for a free lock can take it, and a
\* caller inside the lock with the model not loaded starts load_model again.
C12_FailedLoadReleasesAndRetries ==
    /\ load_lock # "none" => ld_pc[load_lock] \in {"check2", "loading"}
    /\ \A c \in Callers : ld_pc[c] = "raised" => load_lock # c /\ ld_fails > 0
    /\ Cardinality({c \in Callers : ld_pc[c] = "raised"}) <= ld_fails
    /\ ld_loads = ld_fails + Cardinality(LoadsInProgress)
                  + (IF is_loaded(handle) THEN 1 ELSE 0)
    /\ \A c \in Callers :
          /\ (ld_pc[c] = "check1" /\ ~is_loaded(handle)) =>
                ENABLED ensure_check1_miss(c)
          /\ (ld_pc[c] = "acquire"
              /\ \A d \in Callers : ld_pc[d] \notin {"check2", "loading"}) =>
                ENABLED ensure_acquire(c)
          /\ (ld_pc[c] = "check2" /\ ~is_loaded(handle)) =>
                ENABLED ensure_check2_load(c)

\* a load failed and its caller got the exception; a caller that was waiting
\* for the lock then loaded the model
C12_Witness ==
    \E c, d \in Callers :
        /\ ld_pc[c] = "raised" /\ ld_pc[d] = "returned"
        /\ ld_fails = 1 /\ ld_loads = 2
        /\ is_loaded(handle) /\ load_lock = "none"

\* the handle's place on its one-way path
HandleRank(h) == IF h = "unloaded" THEN 0 ELSE IF h = "loading" THEN 1 ELSE 2

\* no step takes the handle back
HandleNeverGoesBack == [][HandleRank(handle') >= HandleRank(handle)]_vars

\* C13: the handle is always unloaded, loading or loaded, and every step
\* that changes it (a load starting, succeeding or failing; a health query
\* and a caller returning change nothing) moves it one place forward on
\* unloaded -> loading -> loaded: never from loading back to unloaded, never
\* from loaded to anything else.
C13_HandleOnlyMovesForward ==
    [][/\ handle' \in {"unloaded", "loading", "loaded"}
       /\ handle' # handle => HandleRank(handle') = HandleRank(handle) + 1
       /\ is_loaded(handle) => is_loaded(handle')]_vars

\* a load has failed and the handle has not gone back to unloaded, which a
\* health query reports as not loaded
C13_Witness ==
    /\ ld_fails >= 1 /\ LoadsInProgress = {}
    /\ handle = "loading"
    /\ health_seen.asked /\ ~health_seen.model_loaded

(***************************************************************************)
(* Classifier failure claims                                               *)
(***************************************************************************)
\* C14 (as stated): when analyze_audio of the remote classifier returns after
\* an upload that succeeded, the uploaded file has been deleted, whichever
\* way the call went.
C14_UploadedFileDeleted ==
    (os_pc = "responded" /\ os_file # "none") => os_file = "deleted"

\* the remote classifier for C14: the file is deleted when, and only when,
\* generate_content returned and delete_file did not raise
UploadedFileDeletedAfterReply ==
    (os_pc = "responded" /\ os_file # "none") =>
        (os_file = "deleted" <=> "delete" \in EventsOf(os_events))

\* C15 (as stated): a request whose classifier raised while preprocessing or
\* classifying is answered with a verdict (status 200) labelled unknown or
\* undecided whose confidence is exactly 0.
C15_ExceptionsBecomeZeroConfidenceVerdicts ==
    (os_pc = "responded" /\ os_resp.detail = "Processing error") =>
        /\ os_resp.status_code = 200
        /\ os_resp.label \in {"unknown", "UNDECIDED"}
        /\ os_resp.confidence = 0

\* the two variants for C15: an exception becomes a verdict in both, with
\* confidence 0 in the local one and 0.3 in the remote one
ExceptionsBecomeVerdicts ==
    (os_pc = "responded" /\ os_resp.detail = "Processing error") =>
        /\ os_resp.status_code = 200
        /\ os_req.route = "predict" =>
              os_resp.label = "unknown" /\ os_resp.confidence = 0
        /\ os_req.route = "gemini" =>
              os_resp.label = "UNDECIDED" /\ os_resp.confidence = 300

\* C16 (as stated): every classification step of a streaming session hands
\* the session a verdict; a failure of the classifier never ends the session
\* as an error.
C16_StreamClassifierFailureBecomesVerdict ==
    \A i \in Iterations :
        Classified(i) =>
            /\ st_log[i].tosend.kind = "verdict"
            /\ st_log[i].end # "error"

\* confidences are in thousandths: [0.0, 1.0] is 0..1000
InRange(confidence) == 0 <= confidence /\ confidence <= 1000

\* C17 (as stated): every verdict the system returns or emits, one-shot
\* (remote and local) and streaming, has a confidence within [0.0, 1.0],
\* whatever the model or the remote reply supplied.
C17_ConfidenceInRange ==
    /\ (os_pc = "responded" /\ os_resp.status_code = 200) =>
          InRange(os_resp.confidence)
    /\ \A i \in Iterations :
          st_log[i].msg.kind = "verdict" => InRange(st_log[i].msg.confidence)

\* the remote variant for C17: parse_gemini_response clamps
\* (response_parser.py:20), its other branches give 0.3, 0.5 or 0.7, and the
\* verdicts built by the handler carry 0.3 or 0.5
RemoteConfidenceInRange ==
    (os_pc = "responded" /\ os_resp.status_code = 200
     /\ os_req.route = "gemini") => InRange(os_resp.confidence)

\* the classifier of the request in `responded` was unavailable: load_model
\* raised for it, or it asked the remote classifier with no API key set
LoadFailed == os_events # <<>> /\ os_events[Len(os_events)] = "load"
NotConfigured ==
    /\ os_req.route = "gemini" /\ ~gemini_key
    /\ os_events = <<"rate_allow">> /\ ~FailsValidation(os_req)

\* C18 (as stated): a one-shot request whose classifier is unavailable is
\* answered 503.
C18_UnavailableAnswers503 ==
    (os_pc = "responded" /\ (LoadFailed \/ NotConfigured)) =>
        os_resp.status_code = 503

\* what the handlers answer for C18: 503 without an API key, 500 when the
\* load raised; the model is then not loaded, and the handler of the next
\* /predict request starts the load again
UnavailableAnswers ==
    /\ (os_pc = "responded" /\ NotConfigured) => os_resp.status_code = 503
    /\ (os_pc = "responded" /\ LoadFailed) =>
          os_resp.status_code = 500 /\ ~is_loaded(handle)
    /\ (os_pc = "hf_ensure" /\ ~is_loaded(handle)) => ENABLED os_hf_ensure(TRUE)

(***************************************************************************)
(* Session claims                                                          *)
(***************************************************************************)
\* C19: when the client disconnects while the session waits for a chunk
\* (with or without buffered audio, before or after earlier verdicts), the
\* iteration that sees the disconnect is the session's last: it calls no
\* classifier and sends nothing, no chunk is received after it, and the
\* handler has returned without closing the socket itself.  When the
\* disconnect shows as a send or a close that fails, that iteration is the
\* last too: the message being sent does not go out, nothing follows it and
\* the handler has returned.
C19_DisconnectTerminates ==
    \A i \in Iterations :
        /\ st_log[i].event = "disconnect" =>
              /\ ~Classified(i)
              /\ st_log[i].msg.kind = "none"
              /\ i = Len(st_log)
              /\ st_chunks = st_log[i].chunks_so_far
              /\ st_pc = "done"
              /\ st_close = 0
        /\ SocketFailed(i) =>
              /\ i = Len(st_log)
              /\ st_chunks = st_log[i].chunks_so_far
              /\ st_pc = "done"
              /\ st_close = 0

\* the client went away with audio in the buffer, after an earlier verdict
\* had left the session open, and with chunks still to send
C19_Witness ==
    /\ st_log # <<>>
    /\ st_log[Len(st_log)].event = "disconnect"
    /\ st_log[Len(st_log)].had_audio
    /\ \E i \in Iterations : EmittedVerdict(i) /\ st_log[i].end = "none"
    /\ st_chunks < MaxChunks
    /\ st_pc = "done"

(***************************************************************************)
(* AudioBuffer claims                                                      *)
(***************************************************************************)
\* floor(((L1 + ... + Ln) / 2) / sampleRate * 1000) over the retained chunks,
\* in exact arithmetic
ExactDurationMs(buf) == (TotalBytes(buf) * 1000) \div (2 * SAMPLE_RATE)

\* C20 (as stated): whatever chunks were appended, odd lengths included,
\* get_duration_ms() equals floor(((L1 + ... + Ln) / 2) / sampleRate * 1000).
C20_DurationIsExactFloor ==
    get_duration_ms(total_samples) = ExactDurationMs(buffer)

\* the buffer for C20: the formula does hold when every retained chunk has
\* an even length and the sample count is not one of those for which the
\* floating-point product falls short of the whole millisecond
DurationExactForEvenChunks ==
    (/\ \A i \in DOMAIN buffer : buffer[i].len % 2 = 0
     /\ total_samples \notin FloatRoundsDown) =>
        get_duration_ms(total_samples) = ExactDurationMs(buffer)

RECURSIVE SumHalves(_)
\* the sum over the retained chunks of len(chunk) // 2
SumHalves(buf) ==
    IF buf = <<>> THEN 0 ELSE (Head(buf).len \div 2) + SumHalves(Tail(buf))

\* C21 (as stated): the running sample count equals the sum over the retained
\* chunks of (byte length / 2) and equals the number of samples
\* get_audio_array() decodes from them; a buffer without chunks has count 0
\* and is empty.
C21_SampleCountMatchesDecodedSamples ==
    /\ total_samples = SumHalves(buffer)
    /\ ~get_audio_array(buffer).raised
    /\ get_audio_array(buffer).len = total_samples
    /\ buffer = <<>> => total_samples = 0 /\ is_empty(buffer)

\* the buffer for C21: the count is the sum of the per-chunk halves, rounded
\* down chunk by chunk, it is the decoded length when every retained chunk is
\* of even length, and clear() leaves no chunk and count 0
SampleCountIsSumOfHalves ==
    /\ total_samples = SumHalves(buffer)
    /\ (\A i \in DOMAIN buffer : ~buffer[i].none /\ buffer[i].len % 2 = 0) =>
          /\ ~get_audio_array(buffer).raised
          /\ get_audio_array(buffer).len = total_samples
    /\ buffer = <<>> => total_samples = 0 /\ is_empty(buffer)
    /\ \A i \in Iterations :
          (i = Len(st_log) /\ EmittedVerdict(i) /\ st_log[i].event = "chunk") =>
              buffer = <<>> /\ total_samples = 0

(***************************************************************************)
(* Length cap                                                              *)
(***************************************************************************)
\* HuggingFaceConfig.SAMPLE_RATE * MAX_AUDIO_LENGTH_SECONDS (10 s of audio)
max_length == HF_SAMPLE_RATE * MAX_AUDIO_LENGTH_SECONDS

\* the one-shot path for C22: the array analyze_audio is about to hand to
\* predict holds max_length samples at most (huggingface_amd.py:114-119)
OneShotArrayCapped == os_pc = "hf_predict" => os_array.len <= max_length

\* C22 (as stated): no array handed to the classifier, by a one-shot request
\* or by a streaming session, holds more than sampleRate x maxLengthSeconds
\* samples.
C22_ClassifierArrayCapped ==
    /\ OneShotArrayCapped
    /\ \A i \in Iterations :
          Classified(i) => st_log[i].call.array.len <= max_length

(***************************************************************************)
(* Payload checks of the one-shot routes                                   *)
(***************************************************************************)
\* the payload is larger than the maximum
Oversized(req) == req.length > MAX_SIZE_MB * 1024 * 1024
Rejected ==
    os_pc = "responded" => os_resp.status_code \in {400, 413, 429}
Unprocessed ==
    /\ os_pc \notin ProcessingSteps
    /\ EventsOf(os_events) \cap ProcessingEvents = {}

\* C23: a request past the rate limiter whose payload is under 1000 bytes
\* or over 10 MB, or whose content type is outside the allow-list, is never
\* at a processing step, has run none (no load, decode, preprocessing,
\* upload or classification), and is answered with a client error.
C23_BadPayloadRejected ==
    (RateChecked /\ (Undersized(os_req) \/ Oversized(os_req)
                     \/ DisallowedContentType(os_req))) =>
        Rejected /\ Unprocessed

\* an upload of 10 MB + 2 bytes, of an allowed type and with no X-Call-SID
\* header, was answered 413 with nothing processed
C23_Witness ==
    /\ os_pc = "responded"
    /\ Oversized(os_req)
    /\ ~DisallowedContentType(os_req) /\ ~MalformedCallSid(os_req)
    /\ os_resp.status_code = 413
    /\ os_events = <<"rate_allow">>

\* the payloads at the two limits are taken: 1000 bytes and 10 MB exactly
\* reach the classifier
PayloadAtLimitsClassified ==
    /\ os_pc = "responded" /\ "classify" \in EventsOf(os_events)
    /\ os_req.length \in {MIN_AUDIO_SIZE_BYTES, MAX_SIZE_MB * 1024 * 1024}

(***************************************************************************)
(* trim_silence (audio_processing.py:167-191) on sample arrays             *)
(*                                                                         *)
(* Amplitudes are in thousandths, as confidences are: the default          *)
(* threshold 0.01 is 10.  Arrays are sequences; an index of the code is    *)
(* 0-based, the sequence index is one more.                                *)
(***************************************************************************)
MaxSamples == 4
TRIM_THRESHOLD == 10
\* silent, at the threshold (not above it), and above it with either sign
Amplitudes == {-20, 0, 10, 20}

Abs(x) == IF x < 0 THEN -x ELSE x

\* audio_processing.py:183: np.abs(audio_array) > threshold
NonSilent(audio_array, threshold) ==
    [i \in 1..Len(audio_array) |-> Abs(audio_array[i]) > threshold]

\* np.any
AnyTrue(flags) == \E i \in 1..Len(flags) : flags[i]

\* np.argmax of a boolean array: the 0-based index of the first True, and 0
\* when there is none (the first of the equal maxima)
RECURSIVE ArgMax(_)
ArgMax(flags) ==
    IF flags = <<>> \/ ~AnyTrue(flags) THEN 0
    ELSE IF Head(flags) THEN 0 ELSE 1 + ArgMax(Tail(flags))

\* non_silent[::-1]
Reversed(flags) == [i \in 1..Len(flags) |-> flags[Len(flags) + 1 - i]]

\* a[start:stop] for 0 <= start, stop
Slice(a, start, stop) ==
    SubSeq(a, start + 1, IF stop > Len(a) THEN Len(a) ELSE stop)

\* audio_processing.py:188
first_sound(non_silent) == ArgMax(non_silent)
\* audio_processing.py:189
last_sound_Exclusive(non_silent) ==
    Len(non_silent) - ArgMax(Reversed(non_silent)) - 2
last_sound(non_silent) ==
    Len(non_silent) - ArgMax(Reversed(non_silent)) - 1

\* audio_processing.py:183-191
TrimSilence(audio_array, threshold) ==
    LET non_silent == NonSilent(audio_array, threshold)
    IN  IF ~AnyTrue(non_silent) THEN audio_array
        ELSE Slice(audio_array, first_sound(non_silent),
                   last_sound(non_silent) + 1)

\* the arrays handed to the function
RECURSIVE ArraysOfLength(_)
ArraysOfLength(n) ==
    IF n = 0 THEN {<<>>}
    ELSE {Append(a, x) : a \in ArraysOfLength(n - 1), x \in Amplitudes}
SampleArrays == UNION {ArraysOfLength(n) : n \in 0..MaxSamples}

trim_silence_call ==
    /\ tr_pc = "call"
    /\ tr_result' = TrimSilence(tr_input, TRIM_THRESHOLD)
    /\ tr_pc' = "done"
    /\ UNCHANGED tr_input
    /\ UNCHANGED <<rl_vars, ld_vars, st_vars, os_vars, hl_vars>>

TRNext == trim_silence_call

InitTrim ==
    /\ RLInit /\ LDInit /\ STInit /\ OSInit /\ HLInit
    /\ tr_pc = "call"
    /\ tr_input \in SampleArrays
    /\ tr_result = <<>>

SpecTrim == InitTrim /\ [][TRNext]_vars

\* the positions of the samples above the threshold
Loud(a) == {i \in 1..Len(a) : Abs(a[i]) > TRIM_THRESHOLD}
Lowest(S) == CHOOSE x \in S : \A y \in S : x <= y
Highest(S) == CHOOSE x \in S : \A y \in S : x >= y

\* C24: trim_silence returns the samples from the first to the last one above
\* the threshold, both included; with no sample above the threshold it
\* returns its input; a non-empty input never gives an empty result.
C24_TrimKeepsFirstToLastSound ==
    tr_pc = "done" =>
        /\ Loud(tr_input) # {} =>
              tr_result = SubSeq(tr_input, Lowest(Loud(tr_input)),
                                 Highest(Loud(tr_input)))
        /\ Loud(tr_input) = {} => tr_result = tr_input
        /\ tr_input # <<>> => tr_result # <<>>

\* a sample at the threshold cut in front, a silent one cut at the end
C24_Witness ==
    /\ tr_pc = "done"
    /\ tr_input = <<10, 20, -20, 0>>
    /\ tr_result = <<20, -20>>

(***************************************************************************)
(* Remote classifier: polling and the classification request               *)
(***************************************************************************)
Count(evs, e) == Cardinality({i \in 1..Len(evs) : evs[i] = e})
RemoteRequest == os_req.route = "gemini" /\ os_pc # "idle"

\* C25: a remote analyze_audio call issues the classification request at
\* most once, and only for an upload that has left PROCESSING and is not
\* FAILED; while the upload is PROCESSING the call only polls; a FAILED
\* upload is answered with the undecided verdict and no classification
\* request.
C25_ClassifyOnceAfterProcessing ==
    RemoteRequest =>
        /\ Count(os_events, "classify") <= 1
        /\ "classify" \in EventsOf(os_events) =>
              /\ os_file \in {"ACTIVE", "deleted"}
              /\ Count(os_events, "upload") = 1
              /\ os_pc = "responded"
        /\ os_file = "PROCESSING" /\ os_pc = "responded" =>
              /\ os_events[Len(os_events)] = "poll"
              /\ os_resp = GeminiError
        /\ os_polls = Count(os_events, "poll")
        /\ os_file = "FAILED" =>
              /\ "classify" \notin EventsOf(os_events)
              /\ os_pc = "responded" => os_resp = GeminiError

\* the upload was PROCESSING through two polls and FAILED at the second one
RemoteFailedAfterPolling ==
    /\ RemoteRequest
    /\ os_pc = "responded"
    /\ os_file = "FAILED"
    /\ os_polls = 2
    /\ os_resp = GeminiError

\* polled twice, then classified
C25_Witness ==
    /\ RemoteRequest
    /\ os_pc = "responded"
    /\ os_polls = 2
    /\ os_events = <<"rate_allow", "upload", "poll", "poll", "classify", "delete">>

(***************************************************************************)
(* RateLimiter: what is stored                                             *)
(***************************************************************************)
\* the times of the allowed checks of an identifier, in the order decided
RECURSIVE AdmittedTimes(_, _)
AdmittedTimes(log, id) ==
    IF log = <<>> THEN <<>>
    ELSE IF Head(log).id = id /\ Head(log).allowed
         THEN <<Head(log).t>> \o AdmittedTimes(Tail(log), id)
         ELSE AdmittedTimes(Tail(log), id)
IsSuffix(s, full) ==
    /\ Len(s) <= Len(full)
    /\ s = SubSeq(full, Len(full) - Len(s) + 1, Len(full))

\* C26: the list stored for an identifier never holds more than max_requests
\* timestamps, and holds timestamps of allowed checks only (the latest ones):
\* a denied check records nothing.
C26_StoredAtMostMaxRequests ==
    \A id \in Identifiers :
        /\ Len(requests[id]) <= max_requests
        /\ IsSuffix(requests[id], AdmittedTimes(rl_log, id))

\* a denied check has returned and the list is full, of admissions only
C26_Witness ==
    \E t \in Threads :
        /\ rl_pc[t] = "ret" /\ ~rl_ret[t]
        /\ Len(requests[rl_id[t]]) = max_requests
        /\ Len(AdmittedTimes(rl_log, rl_id[t])) = max_requests
        /\ Cardinality(ChecksOf(rl_id[t])) = max_requests + 1

\* the oldest timestamp of a non-empty list
Oldest(times) ==
    CHOOSE x \in {times[i] : i \in 1..Len(times)} :
        \A i \in 1..Len(times) : x <= times[i]

\* is_allowed, called at `now` for a list whose oldest timestamp is
\* window_seconds old or older
AfterOldestExpired(t) ==
    /\ requests[rl_id[t]] # <<>>
    /\ rl_now[t] - Oldest(requests[rl_id[t]]) >= window_seconds

NotBlockedStep(t) ==
    /\ (rl_pc[t] = "clean" /\ rl_pc'[t] = "limit" /\ AfterOldestExpired(t)) =>
          ~AtLimit(requests'[rl_id[t]])
    /\ (rl_pc[t] = "limit" /\ rl_pc'[t] = "ret") =>
          /\ AtLimit(requests[rl_id[t]])
          /\ ~rl_ret'[t]
    /\ (rl_pc[t] = "append" /\ rl_pc'[t] = "ret") => rl_ret'[t]

\* C27: a check made window_seconds or more after the oldest timestamp
\* stored for its identifier finds the list under the limit once the old
\* timestamps are dropped, and only a check that finds the list at the limit
\* is denied: such a check is allowed, whatever denied checks came before.
C27_AllowedAfterOldestExpires ==
    [][\A t \in Threads : NotBlockedStep(t)]_vars

\* max_requests admissions at time 0, a denied check inside the window, and
\* an allowed check exactly window_seconds after the admissions
C27_Witness ==
    \E id \in Identifiers :
        \E i, j \in ChecksOf(id) :
            /\ i < j
            /\ ~rl_log[i].allowed /\ rl_log[i].t < window_seconds
            /\ rl_log[j].allowed /\ rl_log[j].t = window_seconds
            /\ Len(FilterSeq(AdmittedTimes(rl_log, id), -1)) = max_requests + 1
            /\ \A k \in ChecksOf(id) : k < i => rl_log[k].allowed /\ rl_log[k].t = 0

(***************************************************************************)
(* Streaming session: the idle timeout on an empty buffer                  *)
(***************************************************************************)
\* iteration i found the buffer without any chunk: every chunk received
\* before it was followed (or consumed) by a verdict, which clears the buffer
NoChunkPending(i) ==
    \A j \in 1..(i - 1) :
        st_log[j].event = "chunk" =>
            \E k \in j..(i - 1) : Returned(k) /\ st_log[k].msg.kind = "verdict"

\* C28: an idle timeout that finds no chunk in the buffer (none since the
\* connect, or none since the last verdict cleared it) ends the session with
\* no classifier call, no message and no close code.
C28_EmptyTimeoutEndsSilently ==
    \A i \in Iterations :
        (st_log[i].event = "timeout" /\ NoChunkPending(i)) =>
            /\ ~Classified(i)
            /\ st_log[i].msg = NoMessage
            /\ st_log[i].end = "returned"
            /\ i = Len(st_log)
            /\ st_pc = "done"
            /\ st_close = 0
            /\ buffer = <<>>

\* a verdict under the threshold cleared the buffer, then the timeout fired
C28_Witness ==
    /\ Len(st_log) = 2
    /\ st_log[1].event = "chunk" /\ Returned(1)
    /\ st_log[1].msg.kind = "verdict" /\ st_log[1].end = "none"
    /\ st_log[2].event = "timeout" /\ ~st_log[2].had_audio
    /\ st_log[2].end = "returned"
    /\ st_pc = "done"

(***************************************************************************)
(* Streaming session: the terminal verdict                                 *)
(***************************************************************************)
\* iteration i emitted a verdict tagged as timeout or over the threshold
TerminalVerdict(i) ==
    /\ st_log[i].msg.kind = "verdict"
    /\ \/ st_log[i].msg.reason = "timeout"
       \/ st_log[i].msg.confidence > CONFIDENCE_THRESHOLD

\* C29: a terminal verdict is the last thing a session does: no iteration
\* follows it (no chunk, no classification, no message), the handler never
\* waits for a message again, and there is at most one such verdict.  When
\* the close that follows it has returned the session is closed with 1000.
C29_TerminalVerdictIsLast ==
    /\ \A i \in Iterations :
          TerminalVerdict(i) =>
              /\ i = Len(st_log)
              /\ st_chunks = st_log[i].chunks_so_far
              /\ Leaving
              /\ st_log[i].end \in {"pending", "closed", "lost"}
              /\ st_log[i].end = "closed" => st_pc = "done" /\ st_close = 1000
    /\ Cardinality({i \in Iterations : TerminalVerdict(i)}) <= 1

\* a verdict under the threshold, more audio, then the timeout verdict
C29_Witness ==
    /\ Len(st_log) = 3
    /\ st_log[1].msg.kind = "verdict" /\ ~TerminalVerdict(1)
    /\ st_log[2].event = "chunk" /\ st_log[2].msg.kind = "none"
    /\ st_log[3].event = "timeout" /\ TerminalVerdict(3)
    /\ st_log[3].msg.confidence <= CONFIDENCE_THRESHOLD
    /\ st_log[3].end = "closed"
    /\ st_pc = "done"

(***************************************************************************)
(* Streaming session: termination                                          *)
(*                                                                         *)
(* receive_bytes is awaited under asyncio.wait_for(..., timeout=5.0)       *)
(* (huggingface_amd.py:278-281): while the session waits for a message the *)
(* timer runs, and it fires unless a message, a disconnect or an error     *)
(* ends the wait first.  A client sends finitely many chunks (MaxChunks),  *)
(* and predict returns or raises within the step that calls it.  An        *)
(* awaited send_json or close returns or raises (lines 303, 310, 330, 331, *)
(* 338, 344).                                                              *)
(***************************************************************************)
IdleTimerFires_Never == TRUE
IdleTimerFires ==
    WF_vars(\E out \in PredictOutcomes(handle) : stream_timeout(out))

OutputCompletes ==
    /\ WF_vars(\E ok \in BOOLEAN : stream_send_verdict(ok))
    /\ WF_vars(\E ok \in BOOLEAN : stream_close_verdict(ok))
    /\ WF_vars(\E ok \in BOOLEAN : stream_send_timeout(ok))
    /\ WF_vars(\E ok \in BOOLEAN : stream_close_timeout(ok))
    /\ WF_vars(\E ok \in BOOLEAN : stream_send_error(ok))
    /\ WF_vars(\E ok \in BOOLEAN : stream_close_error(ok))

SpecStreamLive ==
    InitStream /\ [][STNext]_vars /\ IdleTimerFires /\ OutputCompletes

\* C30: a session always reaches its terminal state, and an idle timeout is
\* always its last iteration, with audio in the buffer or without.
C30_SessionTerminates ==
    /\ (st_pc = "receive") ~> (st_pc = "done")
    /\ [](\A i \in Iterations :
             st_log[i].event = "timeout" => i = Len(st_log) /\ Leaving)

\* the client went silent with audio under the threshold in the buffer, and
\* the timeout ended the session
C30_Witness ==
    /\ st_pc = "done"
    /\ Len(st_log) = 2
    /\ st_log[1].event = "chunk" /\ st_log[1].msg.kind = "none"
    /\ st_log[2].event = "timeout" /\ st_log[2].had_audio
    /\ buffer # <<>>

(***************************************************************************)
(* Local one-shot path: no empty array after the decode                    *)
(***************************************************************************)
Decoded == load_audio_from_bytes(os_req.length, os_req.format)
LocalRequest == os_req.route = "predict" /\ os_pc # "idle"

\* C31: in the local one-shot path an array that decodes empty is answered
\* with the unknown verdict before any preprocessing; the array that trimming,
\* normalisation and the length cap work on, and the one the classifier
\* receives, is never empty.
C31_NoEmptyArrayProcessed ==
    LocalRequest =>
        /\ os_pc \in {"hf_preprocess", "hf_predict"} => os_array.len > 0
        /\ os_array.trimmed \/ os_array.normalized => os_array.len > 0
        /\ "classify" \in EventsOf(os_events) => os_array.len > 0
        /\ ("decode" \in EventsOf(os_events) /\ ~Decoded.raised
            /\ Decoded.len = 0) =>
              /\ os_pc = "responded"
              /\ os_resp = Verdict("unknown", 0, "Processing error")
              /\ os_array = NoArray
              /\ EventsOf(os_events) \cap {"preprocess", "classify"} = {}

\* a WAV file without frames was decoded and answered unknown
C31_Witness ==
    /\ LocalRequest
    /\ os_req.format = "wav_no_frames" /\ os_req.preprocess
    /\ "decode" \in EventsOf(os_events)
    /\ os_pc = "responded"
    /\ os_resp.label = "unknown"

\* a long array was trimmed to one sample, normalised, and classified
TrimmedToOneSampleClassified ==
    /\ LocalRequest
    /\ os_req.length = 1000 /\ os_req.format = "pcm"
    /\ os_array.trimmed /\ os_array.normalized /\ os_array.len = 1
    /\ "classify" \in EventsOf(os_events)

====
